---- MODULE Spec2Model ----
(***************************************************************************)
(* Model of the layer8 interceptor network core: the provider registry     *)
(* (storage.rs), the tunnel initializer and its background tasks           *)
(* (init_tunnel.rs), the request engine (types/request.rs) and the public  *)
(* fetch entry point with its re-initialisation loop (fetch.rs).           *)
(*                                                                         *)
(* The runtime is the single-threaded cooperative wasm/JS executor: an     *)
(* action is the code that runs between two suspension points (.await of   *)
(* a transport send or of a sleep).                                        *)
(***************************************************************************)
EXTENDS Integers, Sequences, FiniteSets, TLC

\* ------------------------------------------------------------------ constants
FETCH_RETRY_ATTEMPTS == 3
INIT_TUNNEL_RETRY_ATTEMPTS == 3
\* `attempts` is a u32, kept as two 16-bit halves (value = hi * 2^16 + lo)
HalfModulus == 65536
\* reqwest::StatusCode::BAD_REQUEST
BAD_REQUEST == 400

\* ------------------------------------------------------------------ bounds
\* Two scenarios are explored.  "deep": one fetch and one background task,
\* followed as far as the retry loops go.  "wide": two fetches and two
\* background tasks interleaved, with fewer requests.  "cancelled": one
\* fetch and one task within the bounds of "wide", the fetch called with an
\* abort signal that is in the aborted state.  "pair": one call of
\* init_encrypted_tunnels with two providers of different hosts and one
\* fetch, within the bounds of "wide".
MaxPosts == 5
MaxSessions == 4
MaxInitFails == 3
MaxLog == 8
WidePosts == 3
WideSessions == 2
WideInitFails == 0
WideLog == 3

Fetches == {1, 2}
TaskIds == {1, 2}

Deep ==
    [fetches |-> {1}, tasks |-> {1}, posts |-> MaxPosts, sessions |-> MaxSessions,
     fails |-> MaxInitFails, log |-> MaxLog, signal |-> "none", pair |-> FALSE,
     body |-> "stream"]
Wide ==
    [fetches |-> Fetches, tasks |-> TaskIds, posts |-> WidePosts, sessions |-> WideSessions,
     fails |-> WideInitFails, log |-> WideLog, signal |-> "none", pair |-> FALSE,
     body |-> "none"]
Cancelled == [Wide EXCEPT !.fetches = {1}, !.tasks = {1}, !.signal = "aborted"]
Pair == [Wide EXCEPT !.fetches = {1}, !.pair = TRUE]

\* ------------------------------------------------------------------ URLs
\* A URL string is modelled by its parts; two strings are equal iff their
\* parts are.  host = "" stands for a string url::Url::parse rejects.
UrlPlain == [host |-> "svc", port |-> "", path |-> ""]
UrlPath == [host |-> "svc", port |-> "", path |-> "/api?x=1"]
UrlOther == [host |-> "other", port |-> "", path |-> ""]

\* The last one is a string that is not a URL.
ProviderUrls == {UrlPlain, UrlPath, UrlOther, [UrlPlain EXCEPT !.host = ""]}
FetchUrls == {UrlPath, [host |-> "svc", port |-> "443", path |-> "/"]}

\* utils::get_base_url : scheme://host[:port], no path or query; the url
\* crate reports no port when the port is the scheme's default.
get_base_url(url) ==
    IF url.host = ""
    THEN [ok |-> FALSE, val |-> url]
    ELSE [ok |-> TRUE,
          val |-> [host |-> url.host,
                   port |-> IF url.port = "443" THEN "" ELSE url.port,
                   path |-> ""]]

RegKeys == ProviderUrls \cup {get_base_url(u).val : u \in ProviderUrls \cup FetchUrls}

\* ------------------------------------------------------------------ registry
\* NetworkState: CONNECTING | OPEN(NetworkStateOpen) | ERRORED(err);
\* NONE is the absence of the key in NETWORK_STATE_MAP.
NoEntry == [st |-> "NONE", sess |-> 0, err |-> ""]
Connecting == [st |-> "CONNECTING", sess |-> 0, err |-> ""]
Open(s) == [st |-> "OPEN", sess |-> s, err |-> ""]
Errored(e) == [st |-> "ERRORED", sess |-> 0, err |-> e]

set_connecting_network_state(reg, key) == [reg EXCEPT ![key] = Connecting]
set_open_network_state(reg, key, s) == [reg EXCEPT ![key] = Open(s)]
\* set_errored_network_state overwriting the whole map.
set_errored_every_provider(reg, key, e) == [k \in DOMAIN reg |-> Errored(e)]
set_errored_network_state(reg, key, e) == [reg EXCEPT ![key] = Errored(e)]

\* get_network_state handing a CONNECTING entry to its caller.
get_network_state_returns_connecting(reg, key) ==
    CASE reg[key].st = "NONE" -> [r |-> "Err", err |-> "NotInitialized", state |-> NoEntry]
      [] reg[key].st = "ERRORED" -> [r |-> "Err", err |-> reg[key].err, state |-> NoEntry]
      [] OTHER -> [r |-> "Ok", err |-> "", state |-> reg[key]]

\* get_network_state waiting on an ERRORED entry as it does on CONNECTING.
get_network_state_waits_on_error(reg, key) ==
    CASE reg[key].st = "NONE" -> [r |-> "Err", err |-> "NotInitialized", state |-> NoEntry]
      [] reg[key].st = "OPEN" -> [r |-> "Ok", err |-> "", state |-> reg[key]]
      [] OTHER -> [r |-> "Sleep", err |-> "", state |-> NoEntry]

\* One pass of the loop of InMemoryCache::get_network_state: Err for a
\* missing key or an ERRORED entry, Ok with the Rc clone of an OPEN entry,
\* and a sleep before the next pass while the entry is CONNECTING.
get_network_state(reg, key) ==
    CASE reg[key].st = "NONE" -> [r |-> "Err", err |-> "NotInitialized", state |-> NoEntry]
      [] reg[key].st = "OPEN" -> [r |-> "Ok", err |-> "", state |-> reg[key]]
      [] reg[key].st = "ERRORED" -> [r |-> "Err", err |-> reg[key].err, state |-> NoEntry]
      [] OTHER -> [r |-> "Sleep", err |-> "", state |-> NoEntry]

VARIABLES
    registry,        \* NETWORK_STATE_MAP
    tasks,           \* background tasks spawned by init_encrypted_tunnels
    fetches,         \* the fetch calls
    nextSess,        \* number of sessions (InitTunnelResult) created so far
    initFails,       \* number of failed /init-tunnel sends so far
    nPosts,          \* number of /proxy POSTs issued so far
    limits,          \* the scenario explored
    refcells,        \* borrow state of the thread_local RefCells
    callers,         \* the micro-operations each caller of the registry has left
    running,         \* the caller that runs (0: all are suspended or idle)
    reentered,       \* a borrow was refused (BorrowError / BorrowMutError panic)
    nCalls,          \* number of registry operations started so far
    form,            \* the FormData given to the assembler: its entries
    entry_idx,       \* number of entries extract_body has gone through
    blob_parts,      \* the bytes assembled so far
    files,           \* FormDataStreamer.files
    streamed,        \* the chunks stream() has returned so far
    formpc,          \* where the assembler is
    resource,        \* first argument of fetch: a string, a URL or a Request
    options,         \* second argument of fetch: the RequestInit, if any
    req_object,      \* the L8RequestObject built from them
    l8_response,     \* the response of the provider, before it is sealed
    sealed,          \* the envelope it travels in
    js_response,     \* what handle_response makes of the envelope
    envelopes,       \* the envelopes the client has produced, in order
    NETWORK_STATE,   \* versioned registry: the version of each provider's OPEN state (0: none)
    INIT_EVENT_ITEMS, \* versioned registry: the version of each provider's init event (0: none)
    api_fetches,     \* the calls of the versioned fetch (fetch/fetch_api.rs)
    tunnel_calls     \* number of calls of initEncryptedTunnel (versioned) so far

engine == <<registry, tasks, fetches, nextSess, initFails, nPosts, limits>>
borrowing == <<refcells, callers, running, reentered, nCalls>>
formdata == <<form, entry_idx, blob_parts, files, streamed, formpc>>
normalizing == <<resource, options, req_object>>
envelope == <<l8_response, sealed, js_response, envelopes>>
versioning == <<NETWORK_STATE, INIT_EVENT_ITEMS, api_fetches, tunnel_calls>>
vars == <<engine, borrowing, formdata, normalizing, envelope, versioning>>

\* ------------------------------------------------------------------ transport
\* What the forward proxy can answer to a /proxy POST.
ProxyOutcomes ==
    {[sent |-> FALSE, status |-> 0, body |-> "none"]}
    \cup {[sent |-> TRUE, status |-> s, body |-> "text"] : s \in {500}}
    \cup {[sent |-> TRUE, status |-> 200, body |-> b] : b \in {"sealed", "garbage"}}

\* What can happen to a /init-tunnel send.
InitOutcomes == {"fail", "good", "malformed", "rejected"}

\* ------------------------------------------------------------------ log
\* The calls a fetch made through the transport, in the order in which
\* they were answered (what a mock transport records); only the first
\* limits.log calls are kept.  A /proxy entry names the session that sealed
\* the request and whose tokens it carried, whether re-initialisation was
\* allowed, and the session whose client opened the answer (0: none).
\* A /proxy entry that carries x-empty-body whatever the body is.
ProxyCall_marks_every_body(s, flag, out, dec, body) ==
    [call |-> "proxy", key |-> s, jwt |-> s, flag |-> flag, n |-> 0,
     x_empty_body |-> TRUE,
     res |-> IF out.sent THEN out.body ELSE "fail", status |-> out.status, dec |-> dec]
\* `body` is the request object's body ("none": no bytes); x_empty_body
\* tells whether the POST carried the header x-empty-body: true.
ProxyCall(s, flag, out, dec, body) ==
    [call |-> "proxy", key |-> s, jwt |-> s, flag |-> flag, n |-> 0,
     x_empty_body |-> (body = "none"),
     res |-> IF out.sent THEN out.body ELSE "fail", status |-> out.status, dec |-> dec]
InitCall(n, out, s) ==
    [call |-> "init", key |-> s, jwt |-> s, flag |-> FALSE, n |-> n,
     x_empty_body |-> FALSE,
     res |-> out, status |-> 0, dec |-> 0]
Record(log, e) == IF Len(log) < limits.log THEN Append(log, e) ELSE log

\* The last answered /proxy POST of a fetch: the session that sealed it,
\* the session whose client opened the answer (0: nothing was opened), and
\* whether the registry entry was no longer that session's when the answer
\* was handled.

OkResult(status) == [kind |-> "ok", err |-> "", status |-> status]
ErrResult(e, status) == [kind |-> "err", err |-> e, status |-> status]

IdleFetch ==
    [pc |-> "idle", base |-> UrlPlain, attempts |-> [hi |-> 0, lo |-> 0], snap |-> 0,
     retry |-> 0, posts |-> 0, inits |-> 0, log |-> <<>>,
     last |-> [key |-> 0, dec |-> 0, stale |-> FALSE],
     res |-> [kind |-> "none", err |-> "", status |-> 0], signal |-> "none", body |-> "none"]
UnusedTask ==
    [pc |-> "unused", url |-> UrlPlain, base |-> UrlPlain, retry |-> 0, body |-> "none"]
\* A task that ran to its end ("done") or was torn down by a throw
\* ("thrown"); what it had captured is dropped.  `body` is what its last
\* /init-tunnel request got.
Finished(how, out) == [UnusedTask EXCEPT !.pc = how, !.body = out]

\* ------------------------------------------------------------------ RefCell borrows
\* The thread_local cells of storage.rs and network_state.rs.
Cells == {"NETWORK_STATE_MAP", "DEV_FLAG", "NETWORK_STATE", "INIT_EVENT_ITEMS"}
Callers == {1, 2}
MaxCalls == 3

\* RefCell: with_borrow takes a shared borrow for the time its closure
\* runs, with_borrow_mut an exclusive one; "await" is a suspension point.
Await == [op |-> "await", cell |-> "DEV_FLAG"]

with_borrow(cell, inside) ==
    <<[op |-> "borrow", cell |-> cell]>> \o inside \o <<[op |-> "release", cell |-> cell]>>
with_borrow_mut(cell, inside) ==
    <<[op |-> "borrow_mut", cell |-> cell]>> \o inside
    \o <<[op |-> "release_mut", cell |-> cell]>>

\* InMemoryCache::get_dev_flag (storage.rs 76-78)
get_dev_flag_ops == with_borrow("DEV_FLAG", <<>>)
\* InMemoryCache::set_dev_flag (storage.rs 70-74)
set_dev_flag_ops == with_borrow_mut("DEV_FLAG", <<>>)
\* A lookup that keeps its borrow of the map while it sleeps.
get_network_state_pass_sleeps_inside(sleeps) ==
    with_borrow("NETWORK_STATE_MAP", IF sleeps THEN <<Await>> ELSE <<>>)
\* One pass of InMemoryCache::get_network_state (storage.rs 25-47): the
\* closure clones the Rc and returns; the sleep comes after it.
get_network_state_pass(sleeps) ==
    with_borrow("NETWORK_STATE_MAP", <<>>) \o (IF sleeps THEN <<Await>> ELSE <<>>)
\* InMemoryCache::get_network_state returning at once, or after one sleep
get_network_state_ops(sleeps) ==
    with_borrow("DEV_FLAG", <<>>)
    \o (IF sleeps THEN get_network_state_pass(TRUE) ELSE <<>>)
    \o get_network_state_pass(FALSE)
\* set_connecting / set_open / set_errored_network_state (storage.rs 52-68)
set_network_state_ops == with_borrow_mut("NETWORK_STATE_MAP", <<>>)
\* pool_op (network_state.rs 259-322): polls the init_tunnel future, which
\* reads the dev flag, and, when it is ready with a session, inserts the
\* state into NETWORK_STATE.
pool_op(polled) ==
    get_dev_flag_ops
    \o (IF polled = "ready_ok" THEN with_borrow_mut("NETWORK_STATE", <<>>) ELSE <<>>)
\* NetworkReadyState::ready_state (network_state.rs 153-241).  `polled` is
\* what the poll of the init event gives: "none" (no event for the url),
\* "pending", "ready_ok", "ready_err".
ready_state(poll_init_event, polled) ==
    with_borrow("NETWORK_STATE", <<>>)
    \o (IF ~poll_init_event
        THEN with_borrow("INIT_EVENT_ITEMS", <<>>)
        ELSE with_borrow_mut("INIT_EVENT_ITEMS",
                             IF polled = "none" THEN <<>> ELSE pool_op(polled))
             \o (IF polled \in {"ready_ok", "ready_err"}
                 THEN with_borrow_mut("INIT_EVENT_ITEMS", <<>>)
                 ELSE <<>>))
\* schedule_init_event (network_state.rs 100-124)
schedule_init_event_ops ==
    ready_state(FALSE, "none") \o with_borrow_mut("INIT_EVENT_ITEMS", <<>>)

\* The operations on the cells a caller can start.
Operations ==
    {get_network_state_ops(s) : s \in BOOLEAN}
    \cup {set_network_state_ops, get_dev_flag_ops, set_dev_flag_ops,
          schedule_init_event_ops}
    \cup {ready_state(TRUE, p) : p \in {"none", "pending", "ready_ok", "ready_err"}}
    \cup {ready_state(FALSE, "none")}

Unborrowed == [shared |-> 0, excl |-> FALSE]
\* RefCell::try_borrow / try_borrow_mut
Refused(cell, o) ==
    \/ o.op = "borrow" /\ cell.excl
    \/ o.op = "borrow_mut" /\ (cell.excl \/ cell.shared > 0)
AfterOp(cell, o) ==
    CASE o.op = "borrow" -> [cell EXCEPT !.shared = @ + 1]
      [] o.op = "borrow_mut" -> [cell EXCEPT !.excl = TRUE]
      [] o.op = "release" -> [cell EXCEPT !.shared = @ - 1]
      [] o.op = "release_mut" -> [cell EXCEPT !.excl = FALSE]
      [] OTHER -> cell

BorrowIdle ==
    /\ refcells = [c \in Cells |-> Unborrowed]
    /\ callers = [c \in Callers |-> <<>>]
    /\ running = 0
    /\ reentered = FALSE
    /\ nCalls = 0

\* A caller starts an operation; nothing else runs (single thread).
CallOperation(c, ops) ==
    /\ running = 0 /\ ~reentered
    /\ callers[c] = <<>>
    /\ nCalls < MaxCalls
    /\ callers' = [callers EXCEPT ![c] = ops]
    /\ running' = c
    /\ nCalls' = nCalls + 1
    /\ UNCHANGED <<refcells, reentered, engine, formdata, normalizing, envelope, versioning>>

\* The running caller executes its next micro-operation: a borrow (refused
\* when the cell is borrowed in a conflicting way), the end of a closure,
\* or a suspension, which lets the other callers run; it stops running
\* when its operation is over.
StepOperation(c) ==
    /\ running = c /\ ~reentered
    /\ LET o == Head(callers[c])
           rest == Tail(callers[c])
       IN /\ reentered' = Refused(refcells[o.cell], o)
          /\ refcells' = IF reentered' \/ o.op = "await"
                         THEN refcells
                         ELSE [refcells EXCEPT ![o.cell] = AfterOp(@, o)]
          /\ callers' = [callers EXCEPT ![c] = rest]
          /\ running' = IF o.op = "await" \/ rest = <<>> THEN 0 ELSE c
    /\ UNCHANGED <<nCalls, engine, formdata, normalizing, envelope, versioning>>

\* A suspended caller is resumed.
ResumeOperation(c) ==
    /\ running = 0 /\ ~reentered
    /\ callers[c] # <<>>
    /\ running' = c
    /\ UNCHANGED <<refcells, callers, reentered, nCalls, engine, formdata, normalizing, envelope, versioning>>

NextBorrow ==
    \/ \E c \in Callers, ops \in Operations : CallOperation(c, ops)
    \/ \E c \in Callers : StepOperation(c)
    \/ \E c \in Callers : ResumeOperation(c)

\* ------------------------------------------------------------------ multipart forms
\* Byte strings are sequences of characters; the literals of the format
\* strings are single elements.
CRLF == <<"\r", "\n">>
ContentDisposition == "Content-Disposition: form-data"

MaxParts == 2
MaxBlob == 4
\* STREAM_CHUNK_SIZE (1 MiB), scaled down
ChunkSize == 2
MaxChunks == 8

RECURSIVE replace_crlf(_)
replace_crlf(str) ==
    IF str = <<>> THEN <<>>
    ELSE IF Len(str) >= 2 /\ SubSeq(str, 1, 2) = CRLF
         THEN <<"\n">> \o replace_crlf(SubSeq(str, 3, Len(str)))
         ELSE <<Head(str)>> \o replace_crlf(Tail(str))
\* value.replace("\r\n", "\n").replace('\r', "\n")
normalize_linefeeds(value) ==
    LET once == replace_crlf(value)
    IN [i \in DOMAIN once |-> IF once[i] = "\r" THEN "\n" ELSE once[i]]
\* str.replace('\n', "%0A").replace('\r', "%0D").replace('"', "%22")
escape(str) ==
    [i \in DOMAIN str |->
        CASE str[i] = "\n" -> "%0A"
          [] str[i] = "\r" -> "%0D"
          [] str[i] = "\"" -> "%22"
          [] OTHER -> str[i]]

\* format!("--{}\r\nContent-Disposition: form-data", boundary)
prefix == <<"--", "boundary">> \o CRLF \o <<ContentDisposition>>
\* format!("--{}--", boundary)
terminator == <<"--", "boundary", "--">>

\* The chunk of a string entry.
string_chunk(e) ==
    prefix \o <<"; name=", "\"">> \o escape(normalize_linefeeds(e.key))
    \o <<"\"">> \o CRLF \o CRLF \o normalize_linefeeds(e.value) \o CRLF
\* The header of a blob entry.
blob_header(key, filename) ==
    prefix \o <<"; name=", "\"">> \o escape(normalize_linefeeds(key)) \o <<"\"">>
    \o (IF filename # <<>>
        THEN <<"; filename=", "\"">> \o escape(filename) \o <<"\"">> \o CRLF
        ELSE CRLF)
    \o <<"Content-Type: ", "type">> \o CRLF \o CRLF
\* A blob entry without the CRLF after the file's contents.
extract_entry_unclosed(e) ==
    IF e.is_string THEN string_chunk(e)
    ELSE blob_header(e.key, e.filename) \o e.blob
\* What one pass of the loop of extract_body appends for entry e.
extract_entry(e) ==
    IF e.is_string THEN string_chunk(e)
    ELSE blob_header(e.key, e.filename) \o e.blob \o CRLF

\* The forms the assemblers are run on.
FormKeys == {<<"k">>, <<"\r", "\n", "\"">>}
StringEntries ==
    {[is_string |-> TRUE, key |-> k, value |-> v, filename |-> <<>>, blob |-> <<>>] :
         k \in FormKeys, v \in {<<"v">>, <<"\r">>}}
BlobEntries ==
    {[is_string |-> FALSE, key |-> k, value |-> <<>>, filename |-> fn,
      blob |-> SubSeq(<<"\r", "\n", "x", "y", "z", "w">>, 1, n)] :
         k \in FormKeys, fn \in {<<>>, <<"f", "\"">>}, n \in {0, 1, ChunkSize + 1, MaxBlob}}
Forms ==
    UNION {[1..n -> StringEntries \cup BlobEntries] : n \in 0..MaxParts}

\* can_stream: some blob is larger than a chunk
can_stream(f) ==
    \E i \in DOMAIN f : ~f[i].is_string /\ Len(f[i].blob) > ChunkSize

\* A slice that never reaches past the byte it started at.
calculate_indices_one_byte(size, start) ==
    LET from == IF start = -1 THEN 0 ELSE start
    IN [start |-> from, end |-> IF from + 1 < size THEN from + 1 ELSE size,
        read_idx |-> from]
\* calculate_indices: the slice to read next; `start` is the file's
\* read_idx, which the function overwrites when it is -1.
calculate_indices(size, start) ==
    LET from == IF start = -1 THEN 0 ELSE start
        slice_end == from + ChunkSize
    IN [start |-> from, end |-> IF slice_end < size THEN slice_end ELSE size,
        read_idx |-> from]

FormDataIdle ==
    /\ form = <<>>
    /\ entry_idx = 0
    /\ blob_parts = <<>>
    /\ files = <<>>
    /\ streamed = <<>>
    /\ formpc = "idle"

RECURSIVE Flatten(_)
Flatten(chunks) ==
    IF chunks = <<>> THEN <<>> ELSE Head(chunks) \o Flatten(Tail(chunks))
SelectEntries(f, string) ==
    SelectSeq(f, LAMBDA e : e.is_string = string)

\* FormDataParser::new: the streamer when some blob is large (its new
\* assembles the string entries and keeps the blobs as files), the
\* in-memory assembler otherwise.
FormDataParser_new ==
    /\ formpc = "new"
    /\ IF can_stream(form)
       THEN /\ blob_parts' =
                   Flatten([i \in DOMAIN SelectEntries(form, TRUE) |->
                               string_chunk(SelectEntries(form, TRUE)[i])])
            /\ files' = [i \in DOMAIN SelectEntries(form, FALSE) |->
                            [key |-> SelectEntries(form, FALSE)[i].key,
                             filename |-> SelectEntries(form, FALSE)[i].filename,
                             blob |-> SelectEntries(form, FALSE)[i].blob,
                             read_idx |-> -1]]
            /\ formpc' = "streaming"
       ELSE /\ formpc' = "in_memory"
            /\ UNCHANGED <<blob_parts, files>>
    /\ UNCHANGED <<form, entry_idx, streamed, engine, borrowing, normalizing, envelope, versioning>>

\* extract_body, one pass of its loop (it awaits the blob's bytes).
ExtractEntry ==
    /\ formpc = "in_memory"
    /\ entry_idx < Len(form)
    /\ blob_parts' = blob_parts \o extract_entry(form[entry_idx + 1])
    /\ entry_idx' = entry_idx + 1
    /\ UNCHANGED <<form, files, streamed, formpc, engine, borrowing, normalizing, envelope, versioning>>

\* extract_body after the loop: the terminator.
ExtractEnd ==
    /\ formpc = "in_memory"
    /\ entry_idx = Len(form)
    /\ blob_parts' = blob_parts \o terminator
    /\ formpc' = "done"
    /\ UNCHANGED <<form, entry_idx, files, streamed, engine, borrowing, normalizing, envelope, versioning>>

\* FormDataStreamer::stream is called (again).  A returned chunk is kept
\* with what the call found: the file, whether it had not been read yet,
\* and how many files are left.
Stream ==
    /\ formpc \in {"streaming", "ended"}
    /\ IF files = <<>>
       THEN /\ formpc' = "ended"
            /\ UNCHANGED <<files, streamed>>
       ELSE LET file == files[1]
                idx == calculate_indices(Len(file.blob), file.read_idx)
                formdata_header ==
                    IF idx.read_idx = -1
                    THEN blob_header(file.key, file.filename)
                    ELSE <<>>
                last == idx.end = Len(file.blob)
                chunk == [key |-> file.key, filename |-> file.filename,
                          unread |-> file.read_idx = -1,
                          left |-> IF last THEN Len(files) - 1 ELSE Len(files),
                          header |-> formdata_header,
                          data |-> SubSeq(file.blob, idx.start + 1, idx.end),
                          suffix |-> IF last THEN CRLF \o terminator ELSE <<>>]
            IN /\ files' = IF last
                           THEN Tail(files)
                           ELSE <<[file EXCEPT !.read_idx = idx.end - 1]>> \o Tail(files)
               /\ streamed' = IF Len(streamed) < MaxChunks
                              THEN Append(streamed, chunk)
                              ELSE streamed
               /\ formpc' = "streaming"
    /\ UNCHANGED <<form, entry_idx, blob_parts, engine, borrowing, normalizing, envelope, versioning>>

NextFormData ==
    \/ FormDataParser_new
    \/ ExtractEntry
    \/ ExtractEnd
    \/ Stream

\* ------------------------------------------------------------------ request objects
MaxParams == 2

\* A URL is its path and its query ("" when it has none).
\* get_uri: the path, then "?" and the query if there is one.
get_uri(url) == IF url.query = "" THEN <<url.path>> ELSE <<url.path, "?", url.query>>

\* val.trim().to_uppercase() on the method names used here
trim_to_uppercase(method) ==
    CASE method = "post" -> "POST"
      [] method = " put " -> "PUT"
      [] OTHER -> method

\* L8RequestObject::default(): the fields that are serialized
DefaultRequestObject == [uri |-> <<>>, method |-> "", headers |-> {}, body |-> <<>>]
NoRequestObject == [DefaultRequestObject EXCEPT !.method = "unbuilt"]

\* A request object for which only the uri was set.
url_only_default(uri) == [DefaultRequestObject EXCEPT !.uri = uri]
\* new, without options: the URL alone, with the GET method assumed.
url_only(uri) == [DefaultRequestObject EXCEPT !.uri = uri, !.method = "GET"]

\* parse_js_request_body for a URLSearchParams: the entries are inserted
\* into a HashMap, a later value of a key replacing the earlier one.
ParamKeys(params) == {params[i][1] : i \in DOMAIN params}
ParamsMap(params) ==
    [k \in ParamKeys(params) |->
        params[CHOOSE i \in DOMAIN params :
                   /\ params[i][1] = k
                   /\ \A j \in DOMAIN params : params[j][1] = k => j <= i][2]]
\* The orders in which the HashMap can be iterated: every order of its keys.
IterationOrders(keys) ==
    {o \in [1..Cardinality(keys) -> keys] : \A i, j \in DOMAIN o : o[i] = o[j] => i = j}

\* .map(|(key, value)| format!("{}={}", key, value)).join("&")
RECURSIVE JoinPairs(_, _)
JoinPairs(map, order) ==
    IF order = <<>> THEN <<>>
    ELSE <<Head(order), "=", map[Head(order)]>>
         \o (IF Len(order) > 1 THEN <<"&">> ELSE <<>>)
         \o JoinPairs(map, Tail(order))

\* parse_form_data_to_array (utils/mod.rs)
parse_form_data_to_array(f) ==
    Flatten([i \in DOMAIN f |-> extract_entry(f[i])]) \o terminator

\* from_request_options; `order` is the order the HashMap of a
\* URLSearchParams body is iterated in.
from_request_options(uri, opts, order) ==
    LET method == IF opts.method = "" THEN "GET" ELSE trim_to_uppercase(opts.method)
        body == opts.body
        with_body ==
            CASE body.kind = "undefined" -> [uri |-> uri, headers |-> {}, body |-> <<>>]
              [] body.kind \in {"string", "stream"} ->
                    [uri |-> uri, headers |-> {}, body |-> body.bytes]
              [] body.kind = "params" ->
                    [uri |-> uri \o <<"?">> \o JoinPairs(ParamsMap(body.params), order),
                     headers |-> {}, body |-> <<>>]
              [] body.kind = "formdata" ->
                    [uri |-> uri,
                     headers |-> {<<"Content-Type", "multipart/form-data; boundary=">>},
                     body |-> parse_form_data_to_array(body.form)]
    IN [uri |-> with_body.uri, method |-> method,
        headers |-> {h \in with_body.headers :
                        \A g \in opts.headers : g[1] # h[1]} \cup opts.headers,
        body |-> with_body.body]

\* from_web_sys_request_object
from_web_sys_request_object(uri, req) ==
    [uri |-> uri, method |-> trim_to_uppercase(req.method),
     headers |-> req.headers, body |-> req.body]

\* L8RequestObject::new
new_request_object(res, opts, order) ==
    LET uri == get_uri(res.url)
    IN IF res.kind = "request" THEN from_web_sys_request_object(uri, res)
       ELSE IF ~opts.given THEN url_only(uri)
       ELSE from_request_options(uri, opts, order)

\* The arguments fetch is called with.
Urls == {[path |-> "/p", query |-> ""], [path |-> "/p", query |-> "x=1"]}
HeaderSets == {{}, {<<"x-a", "1">>}, {<<"Content-Type", "application/json">>}}
Resources ==
    {[kind |-> k, url |-> u, method |-> "", headers |-> {}, body |-> <<>>] :
         k \in {"string", "url"}, u \in Urls}
    \cup {[kind |-> "request", url |-> u, method |-> m.method, headers |-> h,
           body |-> m.body] :
             u \in Urls, h \in HeaderSets,
             m \in {[method |-> "GET", body |-> <<>>], [method |-> "post", body |-> <<>>],
                    [method |-> "POST", body |-> <<"b">>]}}
NoBody == [kind |-> "undefined", bytes |-> <<>>, params |-> <<>>, form |-> <<>>]
Bodies ==
    {NoBody}
    \cup {[NoBody EXCEPT !.kind = k, !.bytes = <<"b">>] : k \in {"string", "stream"}}
    \cup {[NoBody EXCEPT !.kind = "params", !.params = ps] :
             ps \in UNION {[1..n -> {<<"a", "1">>, <<"b", "2">>, <<"a", "3">>}] :
                               n \in 0..MaxParams}}
    \cup {[NoBody EXCEPT !.kind = "formdata",
                         !.form = <<CHOOSE e \in StringEntries : TRUE>>]}
NoOptions == [given |-> FALSE, method |-> "", headers |-> {}, body |-> NoBody]
Options ==
    {NoOptions}
    \cup {[given |-> TRUE, method |-> m, headers |-> h, body |-> b] :
             m \in {"", "post"}, h \in HeaderSets, b \in Bodies}

NormalizeIdle ==
    /\ resource = CHOOSE r \in Resources : TRUE
    /\ options = NoOptions
    /\ req_object = NoRequestObject

\* L8RequestObject::new is run on the arguments.
Normalize ==
    /\ req_object = NoRequestObject
    /\ \E order \in IterationOrders(ParamKeys(options.body.params)) :
           req_object' = new_request_object(resource, options, order)
    /\ UNCHANGED <<resource, options, engine, borrowing, formdata, envelope, versioning>>


\* ------------------------------------------------------------------ envelopes
SessionKeys == {1, 2}
\* The values getrandom can fill the 12 nonce bytes with; 0 is twelve
\* zero bytes.
MaxNonce == 2
MaxEnvelopes == 3

\* AES-256-GCM, symbolically: the ciphertext is the plaintext locked under
\* the key and the nonce.
NoCiphertext == [key |-> 0, nonce |-> 0, plain |-> <<>>, sealed |-> FALSE]
\* encrypt (ntor/common.rs); nonce_bytes is what getrandom returned.
encrypt(key_bytes, data, nonce_bytes) ==
    [nonce |-> nonce_bytes,
     data |-> [key |-> key_bytes, nonce |-> nonce_bytes, plain |-> data, sealed |-> TRUE]]
\* decrypt (ntor/common.rs)
decrypt(nonce_bytes, key, ciphertext) ==
    IF ciphertext.sealed /\ ciphertext.key = key /\ ciphertext.nonce = nonce_bytes
    THEN [ok |-> TRUE, data |-> ciphertext.plain]
    ELSE [ok |-> FALSE, data |-> <<>>]
\* WasmNTorClient::tmp_encrypt: the placeholder nonce and the data as it is
tmp_encrypt(data) ==
    [nonce |-> 0, data |-> [NoCiphertext EXCEPT !.plain = data]]

\* A serde_json value of the header map is a string (s) or a number (n).
\* The decimal digits of the numbers used here.
Digits(n) == IF n = 7 THEN <<"7">> ELSE <<"4", "2">>
\* serde_json::to_string(&value)
to_string(value) ==
    IF value.t = "string"
    THEN <<"\"">>
         \o Flatten([i \in DOMAIN value.s |->
                        IF value.s[i] = "\"" THEN <<"\\", "\"">> ELSE <<value.s[i]>>])
         \o <<"\"">>
    ELSE Digits(value.n)
\* The text a header value stands for.
HeaderText(value) == IF value.t = "string" THEN value.s ELSE Digits(value.n)

\* The L8Response values the provider side seals.
HeaderMaps ==
    {[n \in names |-> v] :
         names \in {{}, {"content-type"}},
         v \in {[t |-> "string", s |-> <<"t", "/", "h">>, n |-> 0],
                [t |-> "number", s |-> <<>>, n |-> 7]}}
L8Responses ==
    {[status |-> st, status_text |-> tx, headers |-> h, body |-> b] :
         st \in {200, 204, 404}, tx \in {<<>>, <<"O", "K">>}, h \in HeaderMaps,
         b \in {<<>>, <<1, 2>>}}

\* serde_json::to_vec of the response and from_slice::<L8ResponseObject>:
\* the JSON document keeps every field, the status as a number that has to
\* fit u16.
to_vec(response) == [json |-> response]
from_slice(bytes) ==
    IF bytes.json.status \in 0..65535
    THEN [ok |-> TRUE, val |-> bytes.json]
    ELSE [ok |-> FALSE, val |-> bytes.json]

NoJsResponse ==
    [kind |-> "none", key |-> 0, status |-> 0, status_text |-> <<>>, headers |-> {},
     body |-> <<>>]
\* new Response(body, init) with a Uint8Array body: a RangeError for a
\* status outside 200..599, a TypeError for a null body status.
Response_new(status, status_text, headers, body) ==
    IF status \notin 200..599 \/ status \in {101, 103, 204, 205, 304}
    THEN [NoJsResponse EXCEPT !.kind = "thrown"]
    ELSE [NoJsResponse EXCEPT !.kind = "response", !.status = status,
                              !.status_text = status_text, !.headers = headers,
                              !.body = body]
\* handle_response from the envelope on: decrypt, deserialize, rebuild.
reconstruct_js_response(key, msg) ==
    LET decrypted_response == decrypt(msg.nonce, key, msg.data)
    IN IF ~decrypted_response.ok THEN [NoJsResponse EXCEPT !.kind = "err"]
       ELSE LET l8 == from_slice(decrypted_response.data)
            IN IF ~l8.ok THEN [NoJsResponse EXCEPT !.kind = "err"]
               ELSE Response_new(l8.val.status, l8.val.status_text,
                                 {<<k, to_string(l8.val.headers[k])>> :
                                      k \in DOMAIN l8.val.headers},
                                 l8.val.body)

NoEnvelope == [nonce |-> 0, data |-> NoCiphertext]
EnvelopeIdle ==
    /\ l8_response = CHOOSE r \in L8Responses : TRUE
    /\ sealed = NoEnvelope
    /\ js_response = NoJsResponse
    /\ envelopes = <<>>

\* The response is JSON-encoded and sealed under a session key.
SealResponse ==
    /\ sealed = NoEnvelope
    /\ \E key \in SessionKeys, nonce \in (0..MaxNonce) :
           sealed' = encrypt(key, to_vec(l8_response), nonce)
    /\ UNCHANGED <<l8_response, js_response, envelopes, engine, borrowing, formdata, normalizing, versioning>>

\* handle_response opens the envelope with the client's session key.
OpenResponse ==
    /\ sealed # NoEnvelope
    /\ js_response = NoJsResponse
    /\ \E key \in SessionKeys :
           js_response' = [reconstruct_js_response(key, sealed) EXCEPT !.key = key]
    /\ UNCHANGED <<l8_response, sealed, envelopes, engine, borrowing, formdata, normalizing, versioning>>

NextRoundTrip ==
    \/ SealResponse
    \/ OpenResponse

\* l8_send seals the request for a /proxy POST (every attempt does).
SealRequest(key) ==
    /\ Len(envelopes) < MaxEnvelopes
    /\ \E nonce \in (0..MaxNonce) :
           envelopes' = Append(envelopes,
               [client |-> key, by |-> "l8_send", msg |-> encrypt(key, <<"r">>, nonce)])
    /\ UNCHANGED <<l8_response, sealed, js_response, engine, borrowing, formdata, normalizing, versioning>>

\* WasmNTorClient::encrypt
ClientEncrypt(key) ==
    /\ Len(envelopes) < MaxEnvelopes
    /\ \E nonce \in (0..MaxNonce) :
           envelopes' = Append(envelopes,
               [client |-> key, by |-> "encrypt", msg |-> encrypt(key, <<"d">>, nonce)])
    /\ UNCHANGED <<l8_response, sealed, js_response, engine, borrowing, formdata, normalizing, versioning>>

\* WasmNTorClient::tmp_encrypt
ClientTmpEncrypt(key) ==
    /\ Len(envelopes) < MaxEnvelopes
    /\ envelopes' = Append(envelopes,
           [client |-> key, by |-> "tmp_encrypt", msg |-> tmp_encrypt(<<"d">>)])
    /\ UNCHANGED <<l8_response, sealed, js_response, engine, borrowing, formdata, normalizing, versioning>>

NextSeal ==
    \/ \E key \in SessionKeys : ClientTmpEncrypt(key)
    \/ \E key \in SessionKeys : ClientEncrypt(key)
    \/ \E key \in SessionKeys : SealRequest(key)

\* ------------------------------------------------------------------ versioned registry
\* network_state.rs and fetch/fetch_api.rs: NETWORK_STATE holds the OPEN
\* state of a provider, INIT_EVENT_ITEMS its init event; both carry a
\* version.  A provider is named by its base url.
NETWORK_STATES_COUNT_LIMIT == 3
MaxTunnelCalls == 2
ServiceProviders == {UrlPlain, UrlOther}

\* versions.sort_by_key(|a| a.version()); versions.last(), CLOSED when
\* there is none (the sort is stable: of two equal versions the one pushed
\* later is last).  version() of CLOSED is 0.
latest(versions) ==
    IF versions = <<>>
    THEN [st |-> "CLOSED", version |-> 0]
    ELSE versions[CHOOSE i \in DOMAIN versions :
                      \A j \in DOMAIN versions :
                          \/ versions[j].version < versions[i].version
                          \/ versions[j].version = versions[i].version /\ j <= i]

\* ready_state storing the new state under the version after the event's.
ready_state_skips_a_version(open, item, poll_init_event, polled) ==
    LET cached == IF open > 0 THEN <<[st |-> "OPEN", version |-> open]>> ELSE <<>>
        connecting == <<[st |-> "CONNECTING", version |-> item]>>
    IN IF item = 0
       THEN [ok |-> TRUE, state |-> latest(cached), open |-> open, item |-> item]
       ELSE IF ~poll_init_event \/ polled = "pending"
       THEN [ok |-> TRUE, state |-> latest(cached \o connecting), open |-> open, item |-> item]
       ELSE IF polled = "ready_ok"
       THEN [ok |-> TRUE, open |-> item + 1, item |-> 0,
             state |-> latest(cached \o <<[st |-> "OPEN", version |-> item + 1]>>)]
       ELSE [ok |-> FALSE, state |-> latest(<<>>), open |-> open, item |-> 0]
\* NetworkReadyState::ready_state on one provider, with pool_op: `open` is
\* the version in NETWORK_STATE and `item` the version in INIT_EVENT_ITEMS
\* (0: no entry), `polled` what polling the init event gives.  Gives the
\* result and the two entries as the call leaves them: a finished event
\* is removed, and a successful one has stored OPEN under its version.
NetworkReadyState_ready_state(open, item, poll_init_event, polled) ==
    LET cached == IF open > 0 THEN <<[st |-> "OPEN", version |-> open]>> ELSE <<>>
        connecting == <<[st |-> "CONNECTING", version |-> item]>>
    IN IF item = 0
       THEN [ok |-> TRUE, state |-> latest(cached), open |-> open, item |-> item]
       ELSE IF ~poll_init_event \/ polled = "pending"
       THEN [ok |-> TRUE, state |-> latest(cached \o connecting), open |-> open, item |-> item]
       ELSE IF polled = "ready_ok"
       THEN [ok |-> TRUE, open |-> item, item |-> 0,
             state |-> latest(cached \o <<[st |-> "OPEN", version |-> item]>>)]
       ELSE [ok |-> FALSE, state |-> latest(<<>>), open |-> open, item |-> 0]

\* schedule_init_event without the short-circuit.
schedule_init_event_unguarded(open, item, expected_next_version) ==
    NetworkReadyState_ready_state(open, item, FALSE, "pending").state.version + 1
\* schedule_init_event: the init event of the provider after the call.
schedule_init_event(open, item, expected_next_version) ==
    LET current_version ==
            NetworkReadyState_ready_state(open, item, FALSE, "pending").state.version
    IN IF current_version >= expected_next_version
       THEN item
       ELSE current_version + 1

\* initEncryptedTunnel scheduling an event for every provider it is given.
init_encrypted_tunnel_every_time(service_providers) ==
    /\ tunnel_calls < MaxTunnelCalls
    /\ tunnel_calls' = tunnel_calls + 1
    /\ INIT_EVENT_ITEMS' =
           [p \in ServiceProviders |->
               IF p \in service_providers THEN 1 ELSE INIT_EVENT_ITEMS[p]]
    /\ UNCHANGED <<NETWORK_STATE, api_fetches, engine, borrowing, formdata,
                   normalizing, envelope>>
\* initEncryptedTunnel (network_state.rs): schedule_init_event(base_url, 1)
\* for each provider of the list; a call touches its own provider only.
init_encrypted_tunnel(service_providers) ==
    /\ tunnel_calls < MaxTunnelCalls
    /\ tunnel_calls' = tunnel_calls + 1
    /\ INIT_EVENT_ITEMS' =
           [p \in ServiceProviders |->
               IF p \in service_providers
               THEN schedule_init_event(NETWORK_STATE[p], INIT_EVENT_ITEMS[p], 1)
               ELSE INIT_EVENT_ITEMS[p]]
    /\ UNCHANGED <<NETWORK_STATE, api_fetches, engine, borrowing, formdata,
                   normalizing, envelope>>

VersionedIdle ==
    /\ NETWORK_STATE = [p \in ServiceProviders |-> 0]
    /\ INIT_EVENT_ITEMS = [p \in ServiceProviders |-> 0]
    /\ api_fetches = [f \in Fetches |->
                         [pc |-> "idle", base |-> UrlPlain, network_state |-> 0,
                          network_states_counter |-> 0, res |-> "none"]]
    /\ tunnel_calls = 0

\* fetch (fetch/fetch_api.rs) up to the end of L8RequestObject::new.
fetch_api_start(f, base) ==
    /\ api_fetches[f].pc = "idle"
    /\ api_fetches' = [api_fetches EXCEPT ![f].pc = "getting", ![f].base = base]
    /\ UNCHANGED <<NETWORK_STATE, INIT_EVENT_ITEMS, tunnel_calls, engine, borrowing,
                   formdata, normalizing, envelope>>

\* get_network_state, one pass of its loop: CONNECTING sleeps and tries
\* again.  The pass made in the Reinitializing arm of fetch is followed by
\* network_states_counter += 1.
fetch_api_get_network_state(f, polled) ==
    /\ api_fetches[f].pc \in {"getting", "regetting"}
    /\ LET fr == api_fetches[f]
           r == NetworkReadyState_ready_state(NETWORK_STATE[fr.base],
                                              INIT_EVENT_ITEMS[fr.base], TRUE, polled)
       IN /\ NETWORK_STATE' = [NETWORK_STATE EXCEPT ![fr.base] = r.open]
          /\ INIT_EVENT_ITEMS' = [INIT_EVENT_ITEMS EXCEPT ![fr.base] = r.item]
          /\ api_fetches' = [api_fetches EXCEPT ![f] =
                CASE ~r.ok -> [fr EXCEPT !.pc = "done", !.res = "init_error"]
                  [] r.ok /\ r.state.st = "CLOSED" ->
                        [fr EXCEPT !.pc = "done", !.res = "not_ready"]
                  [] r.ok /\ r.state.st = "CONNECTING" -> fr
                  [] OTHER ->
                        [fr EXCEPT !.pc = "posting", !.network_state = r.state.version,
                                   !.network_states_counter =
                                       IF fr.pc = "regetting" THEN @ + 1 ELSE @]]
    /\ UNCHANGED <<tunnel_calls, engine, borrowing, formdata, normalizing, envelope>>

\* l8_send of the versioned fetch and the match on its result: the POST
\* came back as `out`.  A failed send or a status >= 400 schedules the
\* next version and gives Reinitializing when the flag is set.
fetch_api_l8_send(f, out) ==
    /\ api_fetches[f].pc = "posting"
    /\ LET fr == api_fetches[f]
           try_initializing_instead_of_error ==
               fr.network_states_counter > NETWORK_STATES_COUNT_LIMIT
           failed == ~out.sent \/ out.status >= BAD_REQUEST
       IN IF failed /\ try_initializing_instead_of_error
          THEN /\ INIT_EVENT_ITEMS' =
                      [INIT_EVENT_ITEMS EXCEPT ![fr.base] =
                          schedule_init_event(NETWORK_STATE[fr.base], @,
                                              fr.network_state + 1)]
               /\ api_fetches' = [api_fetches EXCEPT ![f].pc = "regetting"]
          ELSE /\ api_fetches' = [api_fetches EXCEPT ![f].pc = "done", ![f].res =
                      CASE ~out.sent -> "send_failed"
                        [] out.status >= BAD_REQUEST -> "proxy_error"
                        [] out.body = "garbage" -> "decode_error"
                        [] OTHER -> "response"]
               /\ UNCHANGED INIT_EVENT_ITEMS
    /\ UNCHANGED <<NETWORK_STATE, tunnel_calls, engine, borrowing, formdata,
                   normalizing, envelope>>

NextVersioned ==
    \/ \E l \in SUBSET ServiceProviders \ {{}} : init_encrypted_tunnel(l)
    \/ \E f \in Fetches, p \in ServiceProviders : fetch_api_start(f, p)
    \/ \E f \in Fetches, polled \in {"pending", "ready_ok", "ready_err"} :
           fetch_api_get_network_state(f, polled)
    \/ \E f \in Fetches, out \in ProxyOutcomes : fetch_api_l8_send(f, out)

\* ------------------------------------------------------------------ initial state
EngineIdle ==
    /\ registry = [k \in RegKeys |-> NoEntry]
    /\ tasks = [t \in TaskIds |-> UnusedTask]
    /\ fetches = [f \in Fetches |-> IdleFetch]
    /\ nextSess = 0
    /\ initFails = 0
    /\ nPosts = 0

Init ==
    /\ EngineIdle
    /\ limits \in {Deep, Wide, Cancelled, Pair}
    /\ BorrowIdle
    /\ FormDataIdle
    /\ NormalizeIdle
    /\ EnvelopeIdle
    /\ VersionedIdle

\* The cells alone, under every order of operations of two callers.
InitBorrow ==
    /\ EngineIdle
    /\ limits = Deep
    /\ BorrowIdle
    /\ FormDataIdle
    /\ NormalizeIdle
    /\ EnvelopeIdle
    /\ VersionedIdle

\* The assemblers alone, on every form.
InitFormData ==
    /\ EngineIdle
    /\ limits = Deep
    /\ BorrowIdle
    /\ form \in Forms
    /\ entry_idx = 0
    /\ blob_parts = <<>>
    /\ files = <<>>
    /\ streamed = <<>>
    /\ formpc = "new"
    /\ NormalizeIdle
    /\ EnvelopeIdle
    /\ VersionedIdle

\* The normalizer alone, on every pair of arguments.
InitNormalize ==
    /\ EngineIdle
    /\ limits = Deep
    /\ BorrowIdle
    /\ FormDataIdle
    /\ resource \in Resources
    /\ options \in Options
    /\ req_object = NoRequestObject
    /\ EnvelopeIdle
    /\ VersionedIdle

\* One response, sealed and opened.
InitRoundTrip ==
    /\ EngineIdle
    /\ limits = Deep
    /\ BorrowIdle
    /\ FormDataIdle
    /\ NormalizeIdle
    /\ l8_response \in L8Responses
    /\ sealed = NoEnvelope
    /\ js_response = NoJsResponse
    /\ envelopes = <<>>
    /\ VersionedIdle

\* The operations of the client that produce envelopes.
InitSeal ==
    /\ EngineIdle
    /\ limits = Deep
    /\ BorrowIdle
    /\ FormDataIdle
    /\ NormalizeIdle
    /\ EnvelopeIdle
    /\ VersionedIdle

\* The versioned registry and fetch alone.
InitVersioned ==
    /\ EngineIdle
    /\ limits = Deep
    /\ BorrowIdle
    /\ FormDataIdle
    /\ NormalizeIdle
    /\ EnvelopeIdle
    /\ VersionedIdle

\* ------------------------------------------------------------------ init_tunnel
\* init_tunnel giving up one failed send too late.
init_tunnel_one_more_send(retry_attempt, out) ==
    CASE out = "fail" ->
            IF retry_attempt > INIT_TUNNEL_RETRY_ATTEMPTS
            THEN [next |-> "err", err |-> "Unreachable"]
            ELSE [next |-> "sleep", err |-> ""]
      [] out = "malformed" -> [next |-> "throw", err |-> ""]
      [] out = "rejected" -> [next |-> "err", err |-> "HandshakeRejected"]
      [] OTHER -> [next |-> "ok", err |-> ""]

\* init_tunnel going on after a handshake the nTor client rejected.
init_tunnel_unverified(retry_attempt, out) ==
    CASE out = "fail" ->
            IF retry_attempt >= INIT_TUNNEL_RETRY_ATTEMPTS
            THEN [next |-> "err", err |-> "Unreachable"]
            ELSE [next |-> "sleep", err |-> ""]
      [] out = "malformed" -> [next |-> "throw", err |-> ""]
      [] OTHER -> [next |-> "ok", err |-> ""]

\* init_tunnel after the n-th send came back (init_tunnel.rs 112-178):
\* a failed send is retried after a sleep until INIT_TUNNEL_RETRY_ATTEMPTS
\* sends were made; the body of a delivered response is deserialized with
\* expect_throw, which throws instead of returning an error; a handshake
\* the nTor client rejects is an error.
init_tunnel_after_send(retry_attempt, out) ==
    CASE out = "fail" ->
            IF retry_attempt >= INIT_TUNNEL_RETRY_ATTEMPTS
            THEN [next |-> "err", err |-> "Unreachable"]
            ELSE [next |-> "sleep", err |-> ""]
      [] out = "malformed" -> [next |-> "throw", err |-> ""]
      [] out = "rejected" -> [next |-> "err", err |-> "HandshakeRejected"]
      [] OTHER -> [next |-> "ok", err |-> ""]

\* The transport outcomes the bounds still allow.
InitOutcomeAllowed(out) ==
    /\ out = "fail" => initFails < limits.fails
    /\ out = "good" => nextSess < limits.sessions

\* ------------------------------------------------------------------ init_encrypted_tunnels
FreeTasks(tsk) == {t \in limits.tasks : tsk[t].pc = "unused"}
MinOf(S) == CHOOSE x \in S : \A y \in S : x <= y

\* The for loop of init_encrypted_tunnels over the providers not yet
\* handled: CONNECTING is stored under the provider's url as given, the
\* base url is computed next (an invalid url returns the error from the
\* whole function), and the background task is spawned with the base url.
\* The spawned task starts init_tunnel, which runs up to the send of its
\* first /init-tunnel request without touching the registry.
RECURSIVE init_loop(_, _, _)
init_loop(providers, reg, tsk) ==
    IF providers = <<>>
    THEN [reg |-> reg, tasks |-> tsk, ok |-> TRUE]
    ELSE LET url == Head(providers)
             reg1 == set_connecting_network_state(reg, url)
             base == get_base_url(url)
             t == MinOf(FreeTasks(tsk))
         IN IF ~base.ok
            THEN [reg |-> reg1, tasks |-> tsk, ok |-> FALSE]
            ELSE init_loop(Tail(providers), reg1,
                           [tsk EXCEPT ![t] = [pc |-> "init_sending", url |-> url,
                                               base |-> base.val, retry |-> 1,
                                               body |-> "none"]])

\* The lists init_encrypted_tunnels is called with in a scenario.
ListsOf(lim) ==
    IF lim.pair
    THEN {<<UrlPlain, UrlOther>>, <<UrlPlain, [UrlPlain EXCEPT !.host = ""]>>}
    ELSE {<<UrlPlain>>, <<UrlPath>>}

init_encrypted_tunnels(providers) ==
    /\ Cardinality(FreeTasks(tasks)) >= Len(providers)
    /\ LET r == init_loop(providers, registry, tasks)
       IN /\ registry' = r.reg
          /\ tasks' = r.tasks
    /\ UNCHANGED <<fetches, nextSess, initFails, nPosts, limits,
                 borrowing, formdata, normalizing, envelope, versioning>>

\* The task's /init-tunnel request came back; on the initializer's return
\* the task stores OPEN or ERRORED under the base url (init_tunnel.rs 200-221).
TaskInitResult(t, out) ==
    /\ tasks[t].pc = "init_sending"
    /\ InitOutcomeAllowed(out)
    /\ LET r == init_tunnel_after_send(tasks[t].retry, out)
       IN CASE r.next = "sleep" ->
                 /\ tasks' = [tasks EXCEPT ![t].pc = "init_sleeping"]
                 /\ UNCHANGED <<registry, nextSess>>
            [] r.next = "err" ->
                 /\ tasks' = [tasks EXCEPT ![t] = Finished("done", out)]
                 /\ registry' = set_errored_network_state(registry, tasks[t].base, r.err)
                 /\ UNCHANGED nextSess
            [] r.next = "throw" ->
                 /\ tasks' = [tasks EXCEPT ![t] = Finished("thrown", out)]
                 /\ UNCHANGED <<registry, nextSess>>
            [] OTHER ->
                 /\ tasks' = [tasks EXCEPT ![t] = Finished("done", out)]
                 /\ nextSess' = nextSess + 1
                 /\ registry' = set_open_network_state(registry, tasks[t].base, nextSess + 1)
    /\ initFails' = IF out = "fail" THEN initFails + 1 ELSE initFails
    /\ UNCHANGED <<fetches, nPosts, limits,
                 borrowing, formdata, normalizing, envelope, versioning>>

\* The sleep between two sends is over: next send, Retry-count + 1.
TaskInitWake(t) ==
    /\ tasks[t].pc = "init_sleeping"
    /\ tasks' = [tasks EXCEPT ![t].pc = "init_sending", ![t].retry = @ + 1]
    /\ UNCHANGED <<registry, fetches, nextSess, initFails, nPosts, limits,
                 borrowing, formdata, normalizing, envelope, versioning>>

\* ------------------------------------------------------------------ request engine
Reinitialize == [r |-> "Reinitialize", err |-> "", status |-> 0, dec |-> 0]
ProxyError(status) == [r |-> "ProxyError", err |-> "ProxyBadStatus", status |-> status, dec |-> 0]
SendErr(e, dec) == [r |-> "Err", err |-> e, status |-> 0, dec |-> dec]
ProviderResponse(status, dec) == [r |-> "ProviderResponse", err |-> "", status |-> status, dec |-> dec]

\* handle_response with the status test set too low: every answer counts
\* as a failure of the proxy.
handle_response_low_threshold(client, reinitialize_attempt, response, sealer) ==
    IF response.status >= 200
    THEN IF reinitialize_attempt
         THEN Reinitialize
         ELSE ProxyError(response.status)
    ELSE ProviderResponse(response.status, client)

\* handle_response asking for a re-initialisation when the envelope of a
\* response cannot be opened.
handle_response_rotates_on_decode(client, reinitialize_attempt, response, sealer) ==
    IF response.status >= BAD_REQUEST \/ response.body # "sealed" \/ client # sealer
    THEN IF reinitialize_attempt
         THEN Reinitialize
         ELSE ProxyError(response.status)
    ELSE ProviderResponse(response.status, client)

\* handle_response opening the body before it looks at the status.
handle_response_decrypts_first(client, reinitialize_attempt, response, sealer) ==
    IF response.status >= BAD_REQUEST
    THEN IF reinitialize_attempt
         THEN [Reinitialize EXCEPT !.dec = client]
         ELSE [ProxyError(response.status) EXCEPT !.dec = client]
    ELSE IF response.body # "sealed"
         THEN SendErr("DecodeFailed", 0)
         ELSE IF client # sealer
              THEN SendErr("DecryptFailed", client)
              ELSE ProviderResponse(response.status, client)

\* L8RequestObject::handle_response.  `client` is the session whose nTor
\* client opens the envelope, `sealer` the session the proxy sealed the
\* response for (the one named by the tokens of the request).
handle_response(client, reinitialize_attempt, response, sealer) ==
    IF response.status >= BAD_REQUEST
    THEN IF reinitialize_attempt
         THEN Reinitialize
         ELSE ProxyError(response.status)
    ELSE IF response.body # "sealed"
         THEN SendErr("DecodeFailed", 0)
         ELSE IF client # sealer
              THEN SendErr("DecryptFailed", client)
              ELSE ProviderResponse(response.status, client)

\* l8_send asking for a re-initialisation on every transport error.
l8_send_always_reinitializes(client, reinitialize_attempt, out, sealer) ==
    IF out.sent
    THEN handle_response(client, reinitialize_attempt, out, sealer)
    ELSE Reinitialize

\* L8RequestObject::l8_send once the transport has answered.  `sealer` is
\* the session the request was sealed with when it was sent.
l8_send(client, reinitialize_attempt, out, sealer) ==
    IF out.sent
    THEN handle_response(client, reinitialize_attempt, out, sealer)
    ELSE IF reinitialize_attempt
         THEN Reinitialize
         ELSE SendErr("TransportFailed", 0)

\* ------------------------------------------------------------------ fetch
\* u32 values as two 16-bit halves
U32(n) == [hi |-> n \div HalfModulus, lo |-> n % HalfModulus]
IsZero(a) == a.hi = 0 /\ a.lo = 0

\* `attempts -= 1` on a u32: wraps to 2^32 - 1 in a build without
\* overflow checks.
decrement(attempts) ==
    IF attempts.lo > 0
    THEN [attempts EXCEPT !.lo = @ - 1]
    ELSE [hi |-> (attempts.hi - 1) % HalfModulus, lo |-> HalfModulus - 1]

\* l8_send looking the state up again when the answer arrives.
network_state_open_reread(f) == registry[fetches[f].base].sess

\* The state l8_send works with from the seal to the handling of the
\* answer: the snapshot fetch borrowed from the registry at the top of
\* this iteration (fetch.rs 31-44), whatever the registry holds by now.
network_state_open(f) == fetches[f].snap

\* fetch storing the state that failed once more.
reinitialized_state_failed(val, failed) == failed

\* The state fetch stores after a successful re-initialisation
\* (fetch.rs 77-84): the new InitTunnelResult, with the forward proxy of
\* the state that failed.
reinitialized_state(val, failed) == val

\* fetch re-running the initializer when it finds an ERRORED entry.
loop_top_rotates_on_error(fr, reg) ==
    LET ns == get_network_state(reg, fr.base)
    IN CASE ns.r = "Err" /\ reg[fr.base].st = "ERRORED" ->
              [fr EXCEPT !.pc = "init_sending", !.retry = 1, !.inits = @ + 1]
         [] ns.r = "Err" /\ reg[fr.base].st # "ERRORED" ->
              [fr EXCEPT !.pc = "done", !.res = ErrResult(ns.err, 0)]
         [] ns.r = "Sleep" -> [fr EXCEPT !.pc = "polling"]
         [] OTHER -> [fr EXCEPT !.pc = "posting", !.snap = ns.state.sess, !.posts = @ + 1]

\* Top of fetch's loop (fetch.rs 30-44) up to the suspension point it
\* reaches: the sleep inside get_network_state, or the send of the /proxy
\* POST sealed with the snapshot just read.
loop_top(fr, reg) ==
    LET ns == get_network_state(reg, fr.base)
    IN CASE ns.r = "Err" -> [fr EXCEPT !.pc = "done", !.res = ErrResult(ns.err, 0)]
         [] ns.r = "Sleep" -> [fr EXCEPT !.pc = "polling"]
         [] OTHER ->
              IF ns.state.st # "OPEN"
              THEN [fr EXCEPT !.pc = "done", !.res = ErrResult("NotOpenReportBug", 0)]
              ELSE [fr EXCEPT !.pc = "posting", !.snap = ns.state.sess, !.posts = @ + 1]

\* What L8RequestObject::new leaves of the caller's body: a stream (of a
\* Request, a Blob, a File or a ReadableStream) is read to its end.
L8RequestObject_new(body) == IF body = "stream" THEN "drained" ELSE body

\* fetch is called: base url, request object (which reads the caller's
\* body and keeps the abort signal), attempts, first pass of the loop.
FetchStart(f, url) ==
    /\ fetches[f].pc = "idle"
    /\ f \in limits.fetches
    /\ f > 1 => fetches[f - 1].pc # "idle"
    /\ LET base == get_base_url(url)
           fr == [fetches[f] EXCEPT !.base = base.val, !.signal = limits.signal,
                                    !.body = limits.body,
                                    !.attempts = U32(FETCH_RETRY_ATTEMPTS)]
       IN fetches' = [fetches EXCEPT ![f] =
              IF ~base.ok
              THEN [fr EXCEPT !.pc = "done", !.res = ErrResult("InvalidURL", 0)]
              ELSE loop_top([fr EXCEPT !.body = L8RequestObject_new(@)], registry)]
    /\ nPosts' = nPosts + (fetches'[f].posts - fetches[f].posts)
    /\ nPosts' <= limits.posts
    /\ UNCHANGED <<registry, tasks, nextSess, initFails, limits,
                 borrowing, formdata, normalizing, envelope, versioning>>

\* The sleep inside get_network_state is over: next pass.
FetchPoll(f) ==
    /\ fetches[f].pc = "polling"
    /\ fetches' = [fetches EXCEPT ![f] = loop_top(fetches[f], registry)]
    /\ nPosts' = nPosts + (fetches'[f].posts - fetches[f].posts)
    /\ nPosts' <= limits.posts
    /\ UNCHANGED <<registry, tasks, nextSess, initFails, limits,
                 borrowing, formdata, normalizing, envelope, versioning>>

\* The /proxy POST came back (fetch.rs 44-85): the result of l8_send,
\* the decrement, and the match on the response; Reinitialize starts
\* init_tunnel, which issues its first /init-tunnel request.  The
\* decrement of a zero `attempts` traps or wraps, as the build decides.
FetchProxyResult(f, out) ==
    /\ fetches[f].pc = "posting"
    /\ \E traps \in BOOLEAN :
       LET fr == fetches[f]
           flag == ~IsZero(fr.attempts)
           resp == l8_send(network_state_open(f), flag, out, fr.snap)
           logged == [fr EXCEPT !.log = Record(@, ProxyCall(fr.snap, flag, out, resp.dec, fr.body)),
                                !.last = [key |-> fr.snap, dec |-> resp.dec,
                                          stale |-> (registry[fr.base] # Open(fr.snap))]]
           counted == [logged EXCEPT !.attempts = decrement(fr.attempts)]
       IN /\ fetches' = [fetches EXCEPT ![f] =
            CASE resp.r = "Err" ->
                   [logged EXCEPT !.pc = "done", !.res = ErrResult(resp.err, 0)]
              [] resp.r # "Err" /\ IsZero(fr.attempts) /\ traps ->
                   [logged EXCEPT !.pc = "done", !.res = [kind |-> "panic", err |-> "", status |-> 0]]
              [] OTHER ->
                   CASE resp.r = "ProviderResponse" ->
                          [counted EXCEPT !.pc = "done", !.res = OkResult(resp.status)]
                     [] resp.r = "ProxyError" ->
                          [counted EXCEPT !.pc = "done", !.res = ErrResult(resp.err, resp.status)]
                     [] OTHER ->
                          [counted EXCEPT !.pc = "init_sending", !.retry = 1,
                                          !.inits = @ + 1]]
    /\ UNCHANGED <<registry, tasks, nextSess, initFails, nPosts, limits,
                 borrowing, formdata, normalizing, envelope, versioning>>

\* The /init-tunnel request of fetch's re-initialisation came back
\* (fetch.rs 77-85): an error of init_tunnel is returned with `?`; on
\* success the new state is stored as OPEN and the loop starts over.
FetchInitResult(f, out) ==
    /\ fetches[f].pc = "init_sending"
    /\ InitOutcomeAllowed(out)
    /\ LET fr == fetches[f]
           r == init_tunnel_after_send(fr.retry, out)
           new == IF r.next = "ok" THEN nextSess + 1 ELSE 0
           logged == [fr EXCEPT !.log = Record(@, InitCall(fr.retry, out, new))]
       IN CASE r.next = "sleep" ->
                 /\ fetches' = [fetches EXCEPT ![f] = [logged EXCEPT !.pc = "init_sleeping"]]
                 /\ UNCHANGED <<registry, nextSess>>
            [] r.next = "err" ->
                 /\ fetches' = [fetches EXCEPT ![f] =
                        [logged EXCEPT !.pc = "done", !.res = ErrResult(r.err, 0)]]
                 /\ UNCHANGED <<registry, nextSess>>
            [] r.next = "throw" ->
                 /\ fetches' = [fetches EXCEPT ![f] =
                        [logged EXCEPT !.pc = "done", !.res = [kind |-> "throw", err |-> "", status |-> 0]]]
                 /\ UNCHANGED <<registry, nextSess>>
            [] OTHER ->
                 /\ nextSess' = new
                 /\ registry' = set_open_network_state(registry, fr.base,
                                                       reinitialized_state(new, fr.snap))
                 /\ fetches' = [fetches EXCEPT ![f] =
                        loop_top(logged, registry')]
    /\ initFails' = IF out = "fail" THEN initFails + 1 ELSE initFails
    /\ nPosts' = nPosts + (fetches'[f].posts - fetches[f].posts)
    /\ nPosts' <= limits.posts
    /\ UNCHANGED <<tasks, limits,
                 borrowing, formdata, normalizing, envelope, versioning>>

\* The sleep between two /init-tunnel sends of the re-initialisation is over.
FetchInitWake(f) ==
    /\ fetches[f].pc = "init_sleeping"
    /\ fetches' = [fetches EXCEPT ![f].pc = "init_sending", ![f].retry = @ + 1,
                                  ![f].inits = @ + 1]
    /\ UNCHANGED <<registry, tasks, nextSess, initFails, nPosts, limits,
                 borrowing, formdata, normalizing, envelope, versioning>>

\* ------------------------------------------------------------------ specification
Next ==
    \/ \E l \in ListsOf(limits) : init_encrypted_tunnels(l)
    \/ \E t \in TaskIds, out \in InitOutcomes : TaskInitResult(t, out)
    \/ \E t \in TaskIds : TaskInitWake(t)
    \/ \E f \in Fetches, u \in FetchUrls : FetchStart(f, u)
    \/ \E f \in Fetches : FetchPoll(f)
    \/ \E f \in Fetches, out \in ProxyOutcomes : FetchProxyResult(f, out)
    \/ \E f \in Fetches, out \in InitOutcomes : FetchInitResult(f, out)
    \/ \E f \in Fetches : FetchInitWake(f)

Spec == Init /\ [][Next]_vars
SpecVersioned == InitVersioned /\ [][NextVersioned]_vars
SpecBorrow == InitBorrow /\ [][NextBorrow]_vars
SpecNormalize == InitNormalize /\ [][Normalize]_vars
SpecRoundTrip == InitRoundTrip /\ [][NextRoundTrip]_vars
SpecSeal == InitSeal /\ [][NextSeal]_vars
SpecFormData == InitFormData /\ [][NextFormData]_vars
\* stream() is called again and again
SpecFormDataFair == SpecFormData /\ WF_vars(Stream)

\* ------------------------------------------------------------------ properties
Rotating(fr) == fr.pc \in {"init_sending", "init_sleeping"}
ProxyFailed(e) == e.call = "proxy" /\ e.res = "fail"
ProxyStatus(e, status) == e.call = "proxy" /\ e.res # "fail" /\ e.status = status
ProxyDelivered(e) == e.call = "proxy" /\ e.res = "sealed" /\ e.status < BAD_REQUEST
InitOk(e) == e.call = "init" /\ e.res = "good"
InitEntries(log) == {i \in 1..Len(log) : log[i].call = "init"}

\* C1: a fetch call never issues more than FETCH_RETRY_ATTEMPTS POSTs to
\* /proxy.
C1_PostsBounded ==
    \A f \in Fetches : fetches[f].posts <= FETCH_RETRY_ATTEMPTS

\* C2: the states fetch stores under a key alternate with CONNECTING: a
\* step of a fetch that replaces an OPEN or ERRORED entry stores CONNECTING,
\* and one that replaces CONNECTING stores OPEN or ERRORED.
C2_ConnectingBetween ==
    [][\A k \in RegKeys :
          (registry'[k] # registry[k] /\ fetches' # fetches) =>
              CASE registry[k].st \in {"OPEN", "ERRORED"} -> registry'[k].st = "CONNECTING"
                [] registry[k].st = "CONNECTING" -> registry'[k].st \in {"OPEN", "ERRORED"}
                [] OTHER -> TRUE]_vars

\* C3: while a fetch re-runs the initializer after a failed /proxy
\* attempt, another fetch on the same provider that consults the registry
\* finds CONNECTING and waits; it does not go on with the old session.
C3_RotationObserved ==
    [][\A f, g \in Fetches :
          (/\ f # g
           /\ Rotating(fetches[f])
           /\ fetches[g].pc \in {"idle", "polling"}
           /\ fetches'[g] # fetches[g]
           /\ fetches'[g].base = fetches[f].base)
          => fetches'[g].pc = "polling"]_vars

\* C4: the answer to a /proxy POST is handled with the session the POST
\* was sealed with (the snapshot), whatever the registry holds by then; and
\* a fetch that sends a POST has just read the session it seals with from
\* the registry.
C4_SnapshotKept ==
    [][\A f \in Fetches :
          /\ (fetches[f].pc = "posting" /\ fetches'[f] # fetches[f]) =>
                 /\ fetches'[f].last.key = fetches[f].snap
                 /\ fetches'[f].last.dec \in {0, fetches[f].snap}
                 /\ (fetches'[f].res.kind = "ok" => fetches'[f].last.dec = fetches[f].snap)
          /\ (fetches[f].pc # "posting" /\ fetches'[f].pc = "posting") =>
                 registry'[fetches'[f].base] = Open(fetches'[f].snap)]_vars

\* C4 witness: a fetch returned a response opened with its snapshot after
\* the registry entry had been overwritten.
C4_Witness ==
    \E f \in Fetches :
        /\ fetches[f].res.kind = "ok"
        /\ fetches[f].last.stale
        /\ fetches[f].last.dec = fetches[f].last.key

\* C5: when the initializer run by fetch's re-initialisation returns an
\* error, the provider's entry is ERRORED with that error (and fetch
\* returns it).
C5_RotationFailureStored ==
    [][\A f \in Fetches :
          (Rotating(fetches[f]) /\ fetches'[f].pc = "done" /\ fetches'[f].res.kind = "err")
          => registry'[fetches[f].base] = Errored(fetches'[f].res.err)]_vars

\* C6: init_encrypted_tunnels stores CONNECTING under the base url of the
\* provider, the key its background task writes to; when the task ends, the
\* key the call stored CONNECTING under is no longer CONNECTING.
C6_ConnectingUnderBase ==
    [][\A t \in TaskIds :
          /\ (tasks[t].pc = "unused" /\ tasks'[t].pc = "init_sending")
                 => registry'[tasks'[t].base] = Connecting
          /\ (tasks[t].pc = "init_sending" /\ tasks'[t].pc \in {"done", "thrown"})
                 => registry'[tasks[t].url].st # "CONNECTING"]_vars

\* C7: a /init-tunnel response that cannot be decoded ends the background
\* task with the provider's entry ERRORED, not CONNECTING.
C7_MalformedStoredAsError ==
    [][\A t \in TaskIds :
          (tasks[t].pc = "init_sending" /\ tasks'[t].body = "malformed")
          => (tasks'[t].pc = "done" /\ registry'[tasks[t].base].st = "ERRORED")]_vars

\* C8: a fetch whose /proxy POSTs were all answered 500 and whose
\* re-initialisations all succeeded returns ProxyBadStatus(500) after
\* exactly 3 POSTs and 2 re-initialisations, the last POST made with
\* re-initialisation disabled.
C8_ExhaustedAfterThree ==
    \A f \in Fetches :
        LET fr == fetches[f]
        IN (/\ fr.pc = "done"
            /\ fr.log # <<>>
            /\ Len(fr.log) < limits.log
            /\ \A i \in 1..Len(fr.log) : ProxyStatus(fr.log[i], 500) \/ InitOk(fr.log[i]))
           => (/\ fr.res = ErrResult("ProxyBadStatus", 500)
               /\ fr.posts = FETCH_RETRY_ATTEMPTS
               /\ Cardinality(InitEntries(fr.log)) = FETCH_RETRY_ATTEMPTS - 1
               /\ ~fr.log[Len(fr.log)].flag)

\* C9: after a first /proxy POST that failed in the transport and a
\* /init-tunnel that succeeded, the next call of the fetch is a /proxy POST
\* sealed with, and carrying the tokens of, the session that /init-tunnel
\* created, not the failed one; when it is delivered the fetch returns the
\* response, having made these three calls only.
C9_RetryWithNewSession ==
    \A f \in Fetches :
        LET fr == fetches[f]
        IN (Len(fr.log) >= 2 /\ ProxyFailed(fr.log[1]) /\ InitOk(fr.log[2]) /\ fr.log[2].n = 1)
           => /\ fr.log[2].key # fr.log[1].key
              /\ Len(fr.log) = 2 =>
                     /\ fr.pc = "posting"
                     /\ fr.snap = fr.log[2].key
                     /\ fr.posts = 2
                     /\ fr.inits = 1
              /\ Len(fr.log) >= 3 =>
                     /\ fr.log[3].call = "proxy"
                     /\ fr.log[3].key = fr.log[2].key
                     /\ fr.log[3].jwt = fr.log[2].jwt
                     /\ ProxyDelivered(fr.log[3]) =>
                            /\ fr.pc = "done"
                            /\ fr.res = OkResult(fr.log[3].status)
                            /\ fr.posts = 2
                            /\ fr.inits = 1
                            /\ Len(fr.log) = 3

\* C9 witness: /proxy (fail), /init-tunnel (ok), /proxy (ok), response returned.
C9_Witness ==
    \E f \in Fetches :
        /\ Len(fetches[f].log) = 3
        /\ ProxyFailed(fetches[f].log[1])
        /\ InitOk(fetches[f].log[2])
        /\ ProxyDelivered(fetches[f].log[3])
        /\ fetches[f].res.kind = "ok"

\* C10: a fetch whose first /proxy POST is answered below 400 with a body
\* that opens returns the response after that one POST, with no
\* /init-tunnel request, and none of its steps changes the registry.
C10_SingleAttempt ==
    [][\A f \in Fetches :
          (/\ fetches'[f] # fetches[f]
           /\ fetches'[f].log = <<>> \/ ProxyDelivered(fetches'[f].log[1]))
          => /\ registry' = registry
             /\ nextSess' = nextSess
             /\ fetches'[f].log # <<>> =>
                    /\ fetches'[f].pc = "done"
                    /\ fetches'[f].res = OkResult(fetches'[f].log[1].status)
                    /\ fetches'[f].posts = 1
                    /\ fetches'[f].inits = 0
                    /\ Len(fetches'[f].log) = 1]_vars

\* C10 witness: a fetch returned the response of its first POST.
C10_Witness ==
    \E f \in Fetches :
        /\ fetches[f].pc = "done"
        /\ Len(fetches[f].log) = 1
        /\ ProxyDelivered(fetches[f].log[1])
        /\ fetches[f].res.kind = "ok"
        /\ fetches[f].posts = 1

\* C11: one init_tunnel call sends at most INIT_TUNNEL_RETRY_ATTEMPTS
\* /init-tunnel requests.  In the calls a fetch made, the n-th request of a
\* run of consecutive /init-tunnel requests carries Retry-count n, a request
\* follows another only when that one failed in the transport, and none
\* follows the third; init_tunnel sleeps only after a failed send that was
\* not the third, and after the third it has returned Unreachable.  The
\* background tasks keep the same count.
C11_InitTunnelSends ==
    /\ \A t \in TaskIds :
          /\ tasks[t].pc \in {"init_sending", "init_sleeping"} =>
                 tasks[t].retry \in 1..INIT_TUNNEL_RETRY_ATTEMPTS
          /\ tasks[t].pc = "init_sleeping" => tasks[t].retry < INIT_TUNNEL_RETRY_ATTEMPTS
    /\ \A f \in Fetches :
          LET fr == fetches[f]
              log == fr.log
              n == Len(log)
          IN /\ \A i \in 1..n :
                   log[i].call = "init" =>
                      /\ log[i].n \in 1..INIT_TUNNEL_RETRY_ATTEMPTS
                      /\ IF i > 1 /\ log[i - 1].call = "init"
                         THEN log[i - 1].res = "fail" /\ log[i].n = log[i - 1].n + 1
                         ELSE log[i].n = 1
             /\ (fr.pc = "init_sleeping" /\ n < limits.log) =>
                   /\ log[n].call = "init" /\ log[n].res = "fail"
                   /\ log[n].n < INIT_TUNNEL_RETRY_ATTEMPTS
             /\ (fr.pc = "init_sending" /\ n < limits.log) =>
                   fr.retry = IF log[n].call = "init" THEN log[n].n + 1 ELSE 1
             /\ (n > 0 /\ n < limits.log /\ log[n].call = "init"
                       /\ log[n].res = "fail" /\ log[n].n = INIT_TUNNEL_RETRY_ATTEMPTS) =>
                   fr.pc = "done" /\ fr.res = ErrResult("Unreachable", 0)

\* C11 witness: an init_tunnel call run by a fetch failed three sends,
\* carrying Retry-count 1, 2, 3, and returned Unreachable.
C11_Witness ==
    \E f \in Fetches :
        LET log == fetches[f].log
            n == Len(log)
        IN /\ n >= INIT_TUNNEL_RETRY_ATTEMPTS /\ n < limits.log
           /\ \A k \in 1..INIT_TUNNEL_RETRY_ATTEMPTS :
                 LET e == log[n - INIT_TUNNEL_RETRY_ATTEMPTS + k]
                 IN e.call = "init" /\ e.res = "fail" /\ e.n = k
           /\ fetches[f].res = ErrResult("Unreachable", 0)

C13_HandshakeRejected ==
    [][/\ \A t \in TaskIds :
             (tasks[t].pc = "init_sending" /\ tasks'[t].body = "rejected") =>
                 /\ tasks'[t].pc = "done"
                 /\ registry'[tasks[t].base] = Errored("HandshakeRejected")
                 /\ nextSess' = nextSess
                 /\ \A k \in RegKeys : registry'[k].st = "OPEN" => registry'[k] = registry[k]
       /\ \A f \in Fetches :
             LET log == fetches'[f].log
                 n == Len(log)
             IN (/\ fetches[f].pc = "init_sending"
                 /\ Len(fetches[f].log) < n
                 /\ log[n].res = "rejected") =>
                    /\ fetches'[f].pc = "done"
                    /\ fetches'[f].res = ErrResult("HandshakeRejected", 0)
                    /\ log[n].key = 0
                    /\ nextSess' = nextSess
                    /\ \A k \in RegKeys : registry'[k].st = "OPEN" => registry'[k] = registry[k]]_vars

\* C13 witness: a background task ended on a rejected handshake and the
\* error is stored.
C13_Witness ==
    /\ \E t \in TaskIds : tasks[t].pc = "done" /\ tasks[t].body = "rejected"
    /\ \E k \in RegKeys : registry[k] = Errored("HandshakeRejected")

\* C14: init_encrypted_tunnels returns with every listed provider's entry
\* (the one kept under the provider's base url, which fetch reads and the
\* background task writes) CONNECTING and stores nothing else; while the
\* tasks run, an OPEN or ERRORED entry appears under a provider's key only
\* in the step in which a task of that provider ends, fetches aside.
C14_ReturnsConnecting ==
    [][/\ \A t \in TaskIds :
             (tasks[t].pc = "unused" /\ tasks'[t].pc = "init_sending") =>
                 /\ registry'[tasks'[t].base] = Connecting
                 /\ \A k \in RegKeys : registry'[k] # registry[k] => registry'[k] = Connecting
                 /\ fetches' = fetches /\ nextSess' = nextSess /\ initFails' = initFails
       /\ \A k \in RegKeys :
             (/\ registry'[k] # registry[k]
              /\ registry'[k].st \in {"OPEN", "ERRORED"}
              /\ fetches' = fetches) =>
                 \E t \in TaskIds :
                     /\ tasks[t].pc = "init_sending" /\ tasks[t].base = k
                     /\ tasks'[t].pc = "done"]_vars

\* C15: get_network_state returns Ok only with an OPEN entry, the stored
\* error for an ERRORED entry and NotInitialized for a missing one, and
\* does not return while the entry is CONNECTING; so a fetch that consults
\* the registry goes on to POST only with the OPEN entry it read, keeps
\* waiting exactly when it read CONNECTING, and never takes the "not
\* open, report bug" branch.
C15_AwaitOpen ==
    [][/\ \A k \in RegKeys :
             LET ns == get_network_state(registry', k)
             IN /\ ns.r = "Ok" <=> registry'[k].st = "OPEN"
                /\ ns.r = "Ok" => ns.state = registry'[k]
                /\ ns.r = "Sleep" <=> registry'[k].st = "CONNECTING"
                /\ registry'[k].st = "ERRORED" => (ns.r = "Err" /\ ns.err = registry'[k].err)
                /\ registry'[k].st = "NONE" => (ns.r = "Err" /\ ns.err = "NotInitialized")
       /\ \A f \in Fetches :
             /\ fetches'[f].res # ErrResult("NotOpenReportBug", 0)
             /\ (fetches[f].pc \in {"idle", "polling"} /\ fetches'[f] # fetches[f]
                     /\ fetches'[f].res.err # "InvalidURL") =>
                   LET e == registry[fetches'[f].base]
                   IN CASE e.st = "OPEN" ->
                             fetches'[f].pc = "posting" /\ fetches'[f].snap = e.sess
                        [] e.st = "CONNECTING" -> fetches'[f].pc = "polling"
                        [] e.st = "ERRORED" ->
                             fetches'[f].pc = "done" /\ fetches'[f].res = ErrResult(e.err, 0)
                        [] OTHER ->
                             /\ fetches'[f].pc = "done"
                             /\ fetches'[f].res = ErrResult("NotInitialized", 0)]_vars

\* C15 witness: a fetch that found CONNECTING is still waiting.
C15_Witness ==
    \E f \in Fetches :
        fetches[f].pc = "polling" /\ registry[fetches[f].base] = Connecting

\* What the transport answered to the /proxy POST of a log entry.
AnswerOf(e) ==
    [sent |-> e.res # "fail", status |-> e.status,
     body |-> IF e.res = "fail" THEN "none" ELSE e.res]

\* C16: for every /proxy POST a fetch gets answered, l8_send returns
\* Reinitialize exactly when re-initialisation was allowed and the POST
\* failed in the transport or was answered with a status >= 400; when it
\* was not allowed, the transport failure is the TransportFailed error and
\* the status >= 400 the ProxyBadStatus error with that status; fetch
\* starts the re-initialisation exactly when l8_send returned
\* Reinitialize.
C16_RotationOnlyWithBudget ==
    [][\A f \in Fetches :
          (fetches[f].pc = "posting" /\ Len(fetches'[f].log) > Len(fetches[f].log)) =>
              LET e == fetches'[f].log[Len(fetches'[f].log)]
                  failed == e.res = "fail" \/ e.status >= BAD_REQUEST
                  resp == l8_send(fetches[f].snap, e.flag, AnswerOf(e), fetches[f].snap)
              IN /\ resp.r = "Reinitialize" <=> (e.flag /\ failed)
                 /\ (~e.flag /\ e.res = "fail") => resp = SendErr("TransportFailed", 0)
                 /\ (~e.flag /\ e.res # "fail" /\ e.status >= BAD_REQUEST) =>
                        resp = ProxyError(e.status)
                 /\ (e.res # "fail" /\ e.status < BAD_REQUEST) =>
                        resp.r \in {"ProviderResponse", "Err"}
                 /\ resp.r = "Reinitialize" <=> fetches'[f].pc = "init_sending"]_vars

\* C16 witness: a POST sent with re-initialisation disabled failed in the
\* transport and the fetch returned TransportFailed.
C16_Witness ==
    \E f \in Fetches :
        LET log == fetches[f].log
        IN /\ log # <<>> /\ Len(log) < limits.log
           /\ ProxyFailed(log[Len(log)]) /\ ~log[Len(log)].flag
           /\ fetches[f].res = ErrResult("TransportFailed", 0)

\* C17: when a /proxy POST is answered with a status below 400 and a body
\* that cannot be opened, the fetch returns the error in that step,
\* whether or not re-initialisation was allowed: it starts no
\* re-initialisation, sends nothing more and leaves the registry as it was.
C17_DecodeFailureFatal ==
    [][\A f \in Fetches :
          (fetches[f].pc = "posting" /\ Len(fetches'[f].log) > Len(fetches[f].log)) =>
              LET e == fetches'[f].log[Len(fetches'[f].log)]
              IN (e.res = "garbage" /\ e.status < BAD_REQUEST) =>
                    /\ fetches'[f].pc = "done"
                    /\ fetches'[f].res \in {ErrResult("DecodeFailed", 0),
                                            ErrResult("DecryptFailed", 0)}
                    /\ fetches'[f].posts = fetches[f].posts
                    /\ fetches'[f].inits = fetches[f].inits
                    /\ nPosts' = nPosts
                    /\ nextSess' = nextSess
                    /\ registry' = registry]_vars

\* C17 witness: a first POST, sent with re-initialisation allowed, was
\* answered 200 with a body that does not open, and the fetch returned the
\* error after that one POST.
C17_Witness ==
    \E f \in Fetches :
        LET log == fetches[f].log
        IN /\ Len(log) = 1
           /\ log[1].res = "garbage" /\ log[1].flag
           /\ fetches[f].pc = "done"
           /\ fetches[f].res = ErrResult("DecodeFailed", 0)
           /\ fetches[f].posts = 1 /\ fetches[f].inits = 0

\* The /proxy POSTs of a log whose answer was given to a client's decrypt.
Decrypted(log) == {i \in 1..Len(log) : log[i].call = "proxy" /\ log[i].dec # 0}

\* C18: a /proxy POST that failed in the transport or was answered with a
\* status >= 400 is never followed by a decrypt of its answer; a fetch that
\* returned a response called decrypt exactly once, on the answer to its
\* last POST and with the client of the session that sealed that POST.
C18_OneDecrypt ==
    \A f \in Fetches :
        LET log == fetches[f].log
            n == Len(log)
        IN /\ \A i \in 1..n :
                 (log[i].call = "proxy" /\ (log[i].res = "fail" \/ log[i].status >= BAD_REQUEST))
                 => log[i].dec = 0
           /\ (fetches[f].res.kind = "ok" /\ n < limits.log) =>
                 /\ Decrypted(log) = {n}
                 /\ log[n].dec = log[n].key
                 /\ fetches[f].last.dec = fetches[f].last.key
                 /\ fetches[f].last.key = log[n].key

\* C18 witness: a fetch returned the response of a POST made after a
\* re-initialisation.
C18_Witness ==
    \E f \in Fetches :
        LET log == fetches[f].log
        IN /\ fetches[f].res.kind = "ok"
           /\ Len(log) >= 3 /\ Len(log) < limits.log
           /\ Decrypted(log) = {Len(log)}

\* C19: when a /proxy POST of a fetch called with an aborted signal fails
\* in the transport, the fetch returns the Aborted error; it neither starts
\* a re-initialisation nor returns the error of a failed send.
C19_AbortedSurfaced ==
    [][\A f \in Fetches :
          (/\ fetches[f].pc = "posting"
           /\ fetches[f].signal = "aborted"
           /\ Len(fetches'[f].log) > Len(fetches[f].log)
           /\ ProxyFailed(fetches'[f].log[Len(fetches'[f].log)]))
          => /\ fetches'[f].pc = "done"
             /\ fetches'[f].res = ErrResult("Aborted", 0)]_vars

\* A fetch that consults the registry in this step (it is called, or its
\* wait inside get_network_state is over) and finds the entry ERRORED.
FindsErrored(f) ==
    /\ fetches[f].pc \in {"idle", "polling"}
    /\ fetches'[f] # fetches[f]
    /\ registry[fetches'[f].base].st = "ERRORED"

KeysOf(u) == {k \in RegKeys : k.host = u.host}

\* C21: providers are independent.  A step of a background task or of a
\* fetch changes registry entries of its own provider only;
\* init_encrypted_tunnels changes entries of the providers it is called
\* with only; and whatever the entries of the other providers are, a task
\* whose handshake succeeds stores OPEN for its provider.
C21_ProvidersIndependent ==
    [][/\ \A t \in TaskIds :
             (tasks[t].pc \in {"init_sending", "init_sleeping"} /\ tasks'[t] # tasks[t]) =>
                 /\ \A k \in RegKeys \ KeysOf(tasks[t].base) : registry'[k] = registry[k]
                 /\ tasks'[t].body = "good" => registry'[tasks[t].base].st = "OPEN"
       /\ \A f \in Fetches :
             fetches'[f] # fetches[f] =>
                 \A k \in RegKeys \ KeysOf(fetches'[f].base) : registry'[k] = registry[k]
       /\ \A l \in ListsOf(limits) :
             init_encrypted_tunnels(l) =>
                 \A k \in RegKeys :
                     registry'[k] # registry[k] => \E i \in DOMAIN l : k \in KeysOf(l[i])]_vars

\* C21 witness: the initializer of one provider failed and the other
\* provider's entry is OPEN.
C21_Witness ==
    /\ registry[get_base_url(UrlPlain).val].st = "ERRORED"
    /\ registry[get_base_url(UrlOther).val].st = "OPEN"

\* C22: no borrow of a thread_local cell is refused, and whenever no
\* caller runs (all are suspended or done) every cell is unborrowed: no
\* borrow is held across a suspension point.
C22_NoBorrowAcrossAwait ==
    /\ ~reentered
    /\ running = 0 => \A c \in Cells : refcells[c] = Unborrowed

\* C22 witness: one caller is suspended in the sleep of get_network_state
\* while another holds the exclusive borrow of the map in a set_*.
C22_Witness ==
    \E c, d \in Callers :
        /\ c # d /\ running = d
        /\ callers[c] = get_network_state_pass(FALSE)
        /\ refcells["NETWORK_STATE_MAP"].excl

\* C23: a fetch called for a provider that has no registry entry, or an
\* ERRORED one, returns the registry's error without having read the
\* caller's body to its end and without sending anything.
C23_RegistryBeforeBody ==
    [][\A f \in Fetches :
          (/\ fetches[f].pc = "idle"
           /\ fetches'[f].pc # "idle"
           /\ registry[fetches'[f].base].st \in {"NONE", "ERRORED"})
          => /\ fetches'[f].pc = "done"
             /\ fetches'[f].res =
                    ErrResult(get_network_state(registry, fetches'[f].base).err, 0)
             /\ fetches'[f].posts = 0
             /\ fetches'[f].body # "drained"]_vars

\* The places of token t in the byte string out.
Places(out, t) == {i \in DOMAIN out : out[i] = t}
\* The n-th place of a set of places.
NthPlace(places, n) ==
    CHOOSE p \in places : Cardinality({q \in places : q < p}) = n - 1

\* C24: the output of the in-memory assembler has one Content-Disposition
\* header per entry, the i-th delimiter being followed by the header with
\* the i-th entry's (escaped) name, every part ends with CRLF right before
\* the next delimiter, and the terminator --boundary-- occurs once, at the
\* end.
C24_WellFormedMultipart ==
    formpc = "done" =>
        LET out == blob_parts
            delims == Places(out, "boundary")
        IN /\ Cardinality(Places(out, ContentDisposition)) = Len(form)
           /\ Cardinality(delims) = Len(form) + 1
           /\ \A p \in delims : out[p - 1] = "--"
           /\ {p \in delims : p < Len(out) /\ out[p + 1] = "--"} = {Len(out) - 1}
           /\ \A i \in DOMAIN form :
                 LET p == NthPlace(delims, i)
                     q == NthPlace(delims, i + 1)
                     name == escape(normalize_linefeeds(form[i].key))
                 IN /\ SubSeq(out, p + 1, p + 6 + Len(name)) =
                           CRLF \o <<ContentDisposition, "; name=", "\"">>
                           \o name \o <<"\"">>
                    /\ Cardinality({c \in Places(out, ContentDisposition) :
                                       p < c /\ c < q}) = 1
                    /\ SubSeq(out, q - 3, q - 2) = CRLF

\* C24 witness: the assembler finished a form of a string entry and a
\* named file whose key has a line break and a quote.
C24_Witness ==
    /\ formpc = "done"
    /\ Len(form) = 2
    /\ \E i, j \in DOMAIN form :
          /\ form[i].is_string
          /\ ~form[j].is_string /\ form[j].filename # <<>> /\ form[j].blob # <<>>
          /\ form[j].key = <<"\r", "\n", "\"">>

\* C25: every chunk stream() returns starts with its file's part header
\* exactly when it is the first chunk of that file, and ends with the
\* terminator exactly when it is the last chunk of the last file.
C25_HeaderThenTerminator ==
    \A i \in DOMAIN streamed :
        LET c == streamed[i]
        IN /\ Cardinality(Places(c.header, ContentDisposition))
                  = (IF c.unread THEN 1 ELSE 0)
           /\ c.unread => c.header = blob_header(c.key, c.filename)
           /\ Cardinality(Places(c.suffix, "boundary"))
                  = (IF c.left = 0 THEN 1 ELSE 0)
           /\ c.left = 0 =>
                  SubSeq(c.suffix, Len(c.suffix) - 2, Len(c.suffix)) = terminator

\* C26: the calls of stream() return None after finitely many calls, and
\* once a call has returned None every later call returns None and no
\* chunk.
C26_StreamEnds ==
    /\ (formpc = "streaming") ~> (formpc = "ended")
    /\ [][formpc = "ended" => (formpc' = "ended" /\ streamed' = streamed)]_vars

\* C26 witness: None was returned after two files were streamed, one of
\* them in several chunks.
C26_Witness ==
    /\ formpc = "ended"
    /\ Len(SelectEntries(form, FALSE)) = 2
    /\ Len(streamed) > 3

\* C27: for a URLSearchParams body the uri is the URL's uri followed by
\* "?" and k=v for every entry of the URLSearchParams, in its order and
\* joined by "&", and the body is empty.
C27_ParamsInQuery ==
    (/\ req_object # NoRequestObject
     /\ resource.kind # "request"
     /\ options.given /\ options.body.kind = "params")
    => /\ req_object.body = <<>>
       /\ req_object.uri =
              get_uri(resource.url) \o <<"?">>
              \o Flatten([i \in DOMAIN options.body.params |->
                             <<options.body.params[i][1], "=", options.body.params[i][2]>>
                             \o (IF i < Len(options.body.params) THEN <<"&">> ELSE <<>>)])

\* C28 as stated: whatever the resource is, without options the request
\* object has the method GET, no body and no headers.
C28_NoOptionsIsGet ==
    (req_object # NoRequestObject /\ ~options.given)
    => /\ req_object.method = "GET"
       /\ req_object.body = <<>>
       /\ req_object.headers = {}

\* C28, amended: without options a string or URL resource gives the
\* method GET, no body and no headers; a Request resource gives the
\* Request's own method (trimmed, in upper case), headers and body,
\* with or without options.
C28_NoOptionsIsGetUnlessRequest ==
    req_object # NoRequestObject =>
        /\ req_object.uri # <<>>
        /\ (resource.kind # "request" /\ ~options.given) =>
               /\ req_object.method = "GET"
               /\ req_object.body = <<>>
               /\ req_object.headers = {}
        /\ resource.kind = "request" =>
               /\ req_object.method = trim_to_uppercase(resource.method)
               /\ req_object.body = resource.body
               /\ req_object.headers = resource.headers

\* C28 witness: a URL with a query, normalized without options.
C28_Witness ==
    /\ req_object # NoRequestObject
    /\ ~options.given
    /\ resource.kind = "url"
    /\ req_object.uri = <<"/p", "?", "x=1">>
    /\ req_object.method = "GET"

\* C29: a response that was JSON-encoded and sealed, once opened with the
\* key it was sealed under, gives a Response with the same status, status
\* text, header names with the same values, and body bytes.
C29_RoundTrip ==
    (js_response # NoJsResponse /\ js_response.key = sealed.data.key)
    => /\ js_response.kind = "response"
       /\ js_response.status = l8_response.status
       /\ js_response.status_text = l8_response.status_text
       /\ js_response.headers =
              {<<k, HeaderText(l8_response.headers[k])>> : k \in DOMAIN l8_response.headers}
       /\ js_response.body = l8_response.body

\* C30: two envelopes of the same client (session key) never carry the
\* same nonce, whichever operation produced them.
C30_NonceNeverReused ==
    \A i, j \in DOMAIN envelopes :
        (i # j /\ envelopes[i].client = envelopes[j].client)
        => envelopes[i].msg.nonce # envelopes[j].msg.nonce

\* C31: every /proxy POST of a fetch carries x-empty-body: true exactly
\* when the request object has no body bytes, and its int_rp_jwt and
\* int_fp_jwt are those of the session whose client sealed the envelope,
\* which is the session the fetch had read from the registry.
C31_ProxyHeaders ==
    [][\A f \in Fetches :
          Len(fetches'[f].log) > Len(fetches[f].log) =>
              LET e == fetches'[f].log[Len(fetches'[f].log)]
              IN e.call = "proxy" =>
                     /\ e.x_empty_body = (fetches'[f].body = "none")
                     /\ e.jwt = e.key
                     /\ e.key = fetches[f].snap]_vars

\* C31 witness: a fetch with body bytes POSTed twice, under two sessions,
\* without the header, each time with the tokens of the sealing session.
C31_Witness ==
    \E f \in Fetches :
        /\ fetches[f].body = "drained"
        /\ Len(fetches[f].log) >= 3
        /\ \E i, j \in DOMAIN fetches[f].log :
              /\ fetches[f].log[i].call = "proxy" /\ fetches[f].log[j].call = "proxy"
              /\ fetches[f].log[i].key # fetches[f].log[j].key
              /\ ~fetches[f].log[i].x_empty_body /\ ~fetches[f].log[j].x_empty_body
              /\ fetches[f].log[j].jwt = fetches[f].log[j].key

\* C35: the rotation budget counter of every fetch stays within
\* 0..FETCH_RETRY_ATTEMPTS, and no fetch ends in the panic of an unsigned
\* underflow: `attempts` is never decremented when it is 0.
C35_BudgetInRange ==
    \A f \in Fetches :
        /\ fetches[f].attempts.hi = 0
        /\ fetches[f].attempts.lo <= FETCH_RETRY_ATTEMPTS
        /\ fetches[f].res.kind # "panic"

\* C37: in streaming mode the slices read by successive stream() calls
\* are contiguous, do not overlap and cover each file once: when the
\* stream has ended, the payloads of the chunks, put end to end, are the
\* bytes of the files' blobs in queue order.
C37_SlicesCoverOnce ==
    (formpc = "ended" /\ Len(streamed) < MaxChunks) =>
        Flatten([i \in DOMAIN streamed |-> streamed[i].data]) =
            Flatten([i \in DOMAIN SelectEntries(form, FALSE) |->
                        SelectEntries(form, FALSE)[i].blob])

\* C39: for a resource URL, with or without a query of its own, and a
\* URLSearchParams body, the uri is the path followed by at most one "?"
\* and one query that keeps the URL's query and has every key of the body.
C39_OneQuery ==
    (/\ req_object # NoRequestObject
     /\ resource.kind # "request"
     /\ options.given /\ options.body.kind = "params")
    => LET uri == req_object.uri
       IN /\ uri[1] = resource.url.path
          /\ Cardinality({i \in DOMAIN uri : uri[i] = "?"}) <= 1
          /\ resource.url.query # "" => \E i \in DOMAIN uri : uri[i] = resource.url.query
          /\ \A k \in ParamKeys(options.body.params) : \E i \in DOMAIN uri : uri[i] = k

\* C38: when the options body is a FormData, the Content-Type of the
\* request object is multipart/form-data with the boundary that frames the
\* body, whatever headers the caller passes in the options.
C38_MultipartContentType ==
    (/\ req_object # NoRequestObject
     /\ resource.kind # "request"
     /\ options.given /\ options.body.kind = "formdata")
    => /\ req_object.body = parse_form_data_to_array(options.body.form)
       /\ <<"Content-Type", "multipart/form-data; boundary=">> \in req_object.headers
       /\ \A h \in req_object.headers :
              h[1] = "Content-Type" => h[2] = "multipart/form-data; boundary="

\* C40: init_encrypted_tunnels is all-or-nothing on error: a call that
\* returns an error because a provider URL is invalid leaves the registry
\* as it was (no provider marked CONNECTING) and spawns no initializer.
C40_AllOrNothing ==
    [][\A l \in ListsOf(limits) :
          (init_encrypted_tunnels(l) /\ ~init_loop(l, registry, tasks).ok)
              => (registry' = registry /\ tasks' = tasks)]_vars

\* C32: when a /proxy request of the versioned fetch fails (network error
\* or status >= 400), fetch reinitializes the network state and retries;
\* a call uses at most NETWORK_STATES_COUNT_LIMIT network states, so it
\* gives up on a failed request only once it has used that many.
C32_RetriesWithNewState ==
    \A f \in Fetches :
        /\ api_fetches[f].network_states_counter + 1 <= NETWORK_STATES_COUNT_LIMIT
        /\ (api_fetches[f].pc = "done"
            /\ api_fetches[f].res \in {"send_failed", "proxy_error"}) =>
               api_fetches[f].network_states_counter + 1 = NETWORK_STATES_COUNT_LIMIT

\* C33: schedule_init_event does nothing when a pending or OPEN state of
\* version >= the expected next version exists.  An init event is
\* inserted only for a provider that has none, with the version after the
\* OPEN one; a fetch whose request failed on a version inserts one only
\* if nothing of a later version exists; and a pending init event is
\* never replaced: it stays or is removed.
C33_ScheduledOnce ==
    [][\A p \in ServiceProviders :
          /\ INIT_EVENT_ITEMS[p] > 0 => INIT_EVENT_ITEMS'[p] \in {INIT_EVENT_ITEMS[p], 0}
          /\ (INIT_EVENT_ITEMS'[p] > 0 /\ INIT_EVENT_ITEMS'[p] # INIT_EVENT_ITEMS[p]) =>
                 /\ INIT_EVENT_ITEMS[p] = 0
                 /\ INIT_EVENT_ITEMS'[p] = NETWORK_STATE[p] + 1
          /\ \A f \in Fetches :
                 (/\ api_fetches[f].pc = "posting" /\ api_fetches'[f].pc # "posting"
                  /\ api_fetches[f].base = p
                  /\ \/ INIT_EVENT_ITEMS[p] > api_fetches[f].network_state
                     \/ NETWORK_STATE[p] > api_fetches[f].network_state)
                 => INIT_EVENT_ITEMS'[p] = INIT_EVENT_ITEMS[p]]_vars

\* C33 witness: initEncryptedTunnel was called twice for one provider (the
\* other was never scheduled), so schedule_init_event ran with a pending
\* or OPEN state of version 1 in place, and two fetch calls failed on the
\* same version of that provider.
C33_Witness ==
    /\ tunnel_calls = 2
    /\ NETWORK_STATE[UrlPlain] = 1 /\ INIT_EVENT_ITEMS[UrlPlain] = 0
    /\ NETWORK_STATE[UrlOther] = 0 /\ INIT_EVENT_ITEMS[UrlOther] = 0
    /\ \A f \in Fetches :
           /\ api_fetches[f].pc = "done"
           /\ api_fetches[f].res \in {"send_failed", "proxy_error"}
           /\ api_fetches[f].base = UrlPlain /\ api_fetches[f].network_state = 1

\* C34: initEncryptedTunnel is idempotent per provider.  A call leaves
\* NETWORK_STATE as it is and changes INIT_EVENT_ITEMS only by giving
\* version 1 to providers that had neither a pending nor an OPEN tunnel;
\* and a second call on the state it leaves would change nothing.
C34_Idempotent ==
    [][tunnel_calls' # tunnel_calls =>
          /\ NETWORK_STATE' = NETWORK_STATE
          /\ \A p \in ServiceProviders :
                 /\ IF INIT_EVENT_ITEMS[p] > 0 \/ NETWORK_STATE[p] > 0
                    THEN INIT_EVENT_ITEMS'[p] = INIT_EVENT_ITEMS[p]
                    ELSE INIT_EVENT_ITEMS'[p] \in {0, 1}
                 /\ (INIT_EVENT_ITEMS'[p] > 0 \/ NETWORK_STATE'[p] > 0) =>
                        schedule_init_event(NETWORK_STATE'[p], INIT_EVENT_ITEMS'[p], 1)
                            = INIT_EVENT_ITEMS'[p]]_vars

\* C34 witness: two calls, both for the same provider (no fetch has run
\* and the other provider has no event), whose event is still pending.
C34_Witness ==
    /\ tunnel_calls = 2
    /\ INIT_EVENT_ITEMS[UrlPlain] = 1 /\ NETWORK_STATE[UrlPlain] = 0
    /\ INIT_EVENT_ITEMS[UrlOther] = 0
    /\ \A f \in Fetches : api_fetches[f].pc = "idle"

\* C36: for every provider the version of the OPEN state never decreases
\* and grows by exactly 1 when an initialization succeeds; a pending init
\* event has the version after the OPEN state's (1 when there is none),
\* and ready_state, polling or not, reports CONNECTING while it is pending.
C36_VersionsInStep ==
    [][\A p \in ServiceProviders :
          /\ NETWORK_STATE'[p] \in {NETWORK_STATE[p], NETWORK_STATE[p] + 1}
          /\ INIT_EVENT_ITEMS'[p] > 0 =>
                 /\ INIT_EVENT_ITEMS'[p] = NETWORK_STATE'[p] + 1
                 /\ \A poll_init_event \in BOOLEAN :
                        NetworkReadyState_ready_state(NETWORK_STATE'[p], INIT_EVENT_ITEMS'[p],
                                                      poll_init_event, "pending").state
                            = [st |-> "CONNECTING", version |-> INIT_EVENT_ITEMS'[p]]]_vars

\* C36 witness: one provider's initialization has succeeded (OPEN, version
\* 1, event removed) while the other's event is pending and a fetch is
\* waiting for it.
C36_Witness ==
    /\ NETWORK_STATE[UrlPlain] = 1 /\ INIT_EVENT_ITEMS[UrlPlain] = 0
    /\ NETWORK_STATE[UrlOther] = 0 /\ INIT_EVENT_ITEMS[UrlOther] = 1
    /\ \E f \in Fetches : api_fetches[f].pc = "getting" /\ api_fetches[f].base = UrlOther

====
